---- MODULE Spec2Model ----
(***************************************************************************)
(* Aspargus: the per-video pipeline of src/src/aspargus (admission with    *)
(* metadata probe, parallel frame extraction, the sequential model stages, *)
(* rename, export) and its settings.  External collaborators (ffprobe,     *)
(* ffmpeg, the filesystem, the Ollama endpoints) are inputs chosen         *)
(* nondeterministically from small sets.                                   *)
(***************************************************************************)
EXTENDS Integers, Sequences, FiniteSets, TLC

VARIABLES
    videos,         \* Aspargus.videos: Vec<Video>
    videos_number,  \* Aspargus.videos_number: i32
    adm,            \* observation of the last add_videos / add_video / helper call
    phase,          \* which &mut self operation is in progress ("idle" = none)
    tempdir,        \* thumbnail files present in settings.temp_folder
    error_holder,   \* extract_frames: Arc<Mutex<Option<anyhow::Error>>>
    mutex,          \* extract_frames: index of the worker holding the lock, 0 = free
    wpc,            \* extract_frames: position of the closure run for each video
    wout,           \* extract_frames: what the decoder call of each video did
    videos0,        \* the catalog when the operation in progress (or the last one) started
    extract_ret,    \* extract_frames: the returned Result ("none" while running)
    stages_run,     \* model stages: the stages started so far, in order
    cursor,         \* model stages: index of the video the for loop is at
    inflight,       \* model stages: the request awaiting its response, or NoRequest
    attempts,       \* model stages: videos handed to the per-video helper, in order
    requests,       \* model stages: requests sent to an endpoint, in order
    errors,         \* model stages: videos for which log::error! was called, in order
    rename_log,     \* rename_videos: the fs::rename calls of the last invocation
    json_file,      \* export_to_json: the content of the exported file, None before
    export_ret,     \* export_to_json: the returned Result ("none" before a call)
    settings,       \* Aspargus.settings: the persisted fields of AspargusSettings
    settings_file,  \* the content of settings.json
    set_call,       \* observation of the last settings mutator call
    clients         \* Aspargus.cv_ollama and text_ollama: the endpoint of each client

vars == <<videos, videos_number, adm, phase, tempdir, error_holder, mutex, wpc,
          wout, videos0, extract_ret, stages_run, cursor, inflight, attempts, requests, errors,
          rename_log, json_file, export_ret, settings, settings_file, set_call, clients>>

admVars     == <<videos_number, adm>>
extractVars == <<tempdir, error_holder, mutex, wpc, wout, extract_ret>>
stageVars   == <<stages_run, cursor, inflight, attempts, requests, errors>>
exportVars  == <<json_file, export_ret>>
settingsVars == <<settings, settings_file, set_call, clients>>

(***************************************************************************)
(* Bounds of the model.                                                    *)
(***************************************************************************)
MaxVideos   == 3   \* longest catalog
MaxBatch    == 2   \* longest list of paths given to one add_videos call
MaxAttempts == 4   \* largest videos_number
MaxFrames   == 1   \* most frames one decoder run writes
MaxAnyVideos == 2  \* longest catalog when the operations come in any order
MaxStageRuns == 1  \* most model stages started when the operations come in any order

Range(s) == {s[i] : i \in 1..Len(s)}

None    == [some |-> FALSE]
Some(x) == [some |-> TRUE, v |-> x]

(***************************************************************************)
(* Paths are sequences of characters.  The md5 digest of a path is a       *)
(* table over the paths of the model (distinct paths, distinct digests).   *)
(***************************************************************************)
PathA == <<"/", "a", ".", "M">>
PathB == <<"/", "b", ".", "m">>
PathC == <<"/", "c">>
PathD == <<"/", "d", "/", ".", "/", "a", ".", "M">>
Paths == {PathA, PathB}

md5_hex(path) ==
    CASE path = PathA -> "0cc1"
      [] path = PathB -> "92eb"
      [] path = PathC -> "c840"
      [] path = PathD -> "c1d6"
      [] OTHER        -> "d41d"

(***************************************************************************)
(* Resume and Video.                                                       *)
(***************************************************************************)
ResumeDefault == [title |-> <<>>, description |-> <<>>, keywords |-> <<>>]

Date(y, m, d) == [year |-> y, month |-> m, day |-> d]
Epoch         == Date(1970, 1, 1)

(***************************************************************************)
(* AspargusSettings: the fields that are written to settings.json, with    *)
(* the defaults of settings.rs.  load_settings gives the content of the    *)
(* file, or creates the file with the defaults.                            *)
(***************************************************************************)
DefaultPort == 11434

SettingsDefault ==
    [computer_vision_model       |-> "gemma3:latest",
     text_model                  |-> "gemma3:1b",
     computer_vision_server      |-> "http://localhost",
     text_server                 |-> "http://localhost",
     computer_vision_server_port |-> DefaultPort,
     text_server_port            |-> DefaultPort,
     two_steps                   |-> FALSE]

NoSetCall == [field |-> "none", value |-> "none", changed |-> FALSE, called |-> FALSE,
              saved |-> FALSE]

\* Ollama::new(host, port)
ollama_new(host, port) == [host |-> host, port |-> port]

\* the two clients Aspargus::new builds from the settings it has loaded
new_clients(st) ==
    [cv_ollama   |-> ollama_new(st.computer_vision_server, st.computer_vision_server_port),
     text_ollama |-> ollama_new(st.text_server, st.text_server_port)]

\* load_settings on a file that is absent or holds the defaults, or the defaults
\* with the two steps flag set
load_settings == { [SettingsDefault EXCEPT !.two_steps = b] : b \in BOOLEAN }

(***************************************************************************)
(* ffprobe output lines and their parsers, as tables over the lines of     *)
(* the model.  Durations are kept in tenths of a second.                   *)
(***************************************************************************)
LineShort == "2.0"
LineLong  == "120.5"
LineDate  == "2023-05-01T10:00:00Z"
LineJunk  == "N/A"
LineNeg   == "-5.0"
LineDate2 == "2024-01-01T00:30:00+01:00"

\* DateTime::parse_from_rfc3339(&value) followed by to_utc()
parse_from_rfc3339(line) ==
    CASE line = LineDate  -> Some(Date(2023, 5, 1))
      [] line = LineDate2 -> Some(Date(2023, 12, 31))
      [] OTHER            -> None

parse_f32(line) ==
    CASE line = LineShort -> Some(20)
      [] line = LineLong  -> Some(1205)
      [] line = LineNeg   -> Some(-50)
      [] OTHER            -> None

\* mutant: the lines are not filtered
Dedup_keeps_all(lines) == lines

\* set.insert(item) filter: keeps the first occurrence of each line, in order
RECURSIVE Dedup(_)
Dedup(lines) ==
    IF lines = <<>> THEN <<>>
    ELSE LET front == Dedup(SubSeq(lines, 1, Len(lines) - 1))
             last  == lines[Len(lines)]
         IN  IF last \in Range(front) THEN front ELSE Append(front, last)

RECURSIVE parse_metadata_from(_, _, _)
parse_metadata_from(values, i, acc) ==
    IF i > Len(values) THEN acc
    ELSE LET date == parse_from_rfc3339(values[i])
             num  == parse_f32(values[i])
         IN  IF date.some
                 THEN parse_metadata_from(values, i + 1, [acc EXCEPT !.date = date])
             ELSE IF num.some
                 THEN parse_metadata_from(values, i + 1, [acc EXCEPT !.duration = num])
             ELSE parse_metadata_from(values, i + 1, acc)

parse_metadata_to_tuple(values) ==
    parse_metadata_from(values, 1, [duration |-> None, date |-> None])

\* duration in tenths of a second; floor(duration / 3.0)
get_capture_gap(duration) == duration \div 30

(***************************************************************************)
(* The probe: what Command::new("ffprobe")...output() gave.  The binary is *)
(* missing, the process cannot be started, or it ran: then there are its   *)
(* exit status and the lines of its standard output, or a standard output  *)
(* that is not UTF-8.                                                      *)
(***************************************************************************)
ProbeNotFound    == [kind |-> "NotFound", exit |-> 0, lines |-> <<>>]
ProbeSpawnError  == [kind |-> "SpawnError", exit |-> 0, lines |-> <<>>]
ProbeOutput(ls)  == [kind |-> "Output", exit |-> 0, lines |-> ls]
ProbeFailed(ls)  == [kind |-> "Output", exit |-> 1, lines |-> ls]
ProbeNotUtf8     == [kind |-> "NotUtf8", exit |-> 0, lines |-> <<>>]

Ok(x)   == [ok |-> TRUE, v |-> x, err |-> "none"]
Err(e)  == [ok |-> FALSE, v |-> <<>>, err |-> e]

\* a panic of the thread, which unwinds through the callers and ends the program
Panic == "panic"

\* output.status is not read: the lines of a probe that exited with an error are
\* parsed like those of one that succeeded; String::from_utf8(..).unwrap()
\* panics on a standard output that is not UTF-8
get_video_metadata(probe) ==
    CASE probe.kind = "NotFound"   -> Err("FFProbeNotFoundError")
      [] probe.kind = "SpawnError" -> Err("MetadataExtractionError")
      [] probe.kind = "NotUtf8"    -> Err(Panic)
      [] OTHER -> Ok(parse_metadata_to_tuple(Dedup(probe.lines)))

(***************************************************************************)
(* Video::new: the digest of the path, the probe, the gap.  A value the    *)
(* probe did not give takes its default: the date the epoch, the duration  *)
(* 0.  An error of the probe is returned to add_video, whose match is on   *)
(* the error of Video::new.                                                *)
(***************************************************************************)
VideoNew(path, numeric_id, probe) ==
    LET meta == get_video_metadata(probe) IN
    CASE ~meta.ok -> Err(meta.err)
      [] OTHER -> Ok([id            |-> md5_hex(path),
                      path          |-> path,
                      story         |-> "",
                      resume        |-> ResumeDefault,
                      thumbnails    |-> <<>>,
                      creation_date |-> IF meta.v.date.some THEN meta.v.date.v ELSE Epoch,
                      gap           |-> get_capture_gap(IF meta.v.duration.some
                                                        THEN meta.v.duration.v ELSE 0),
                      numeric_id    |-> numeric_id,
                      skip          |-> FALSE])

\* mutant: the + 1 is forgotten
get_new_video_numeric_id_same(vs) ==
    IF Len(vs) >= 1 THEN vs[Len(vs)].numeric_id ELSE 1

get_new_video_numeric_id(vs) ==
    IF Len(vs) >= 1 THEN vs[Len(vs)].numeric_id + 1 ELSE 1

(***************************************************************************)
(* One path submitted for admission: the path, what Path::is_file says     *)
(* and what the probe does.                                                *)
(***************************************************************************)
Input(path, is_file, probe) == [path |-> path, is_file |-> is_file, probe |-> probe]

\* a file of 2 seconds with no creation date, and one of 120.5 seconds with one
InputShort == Input(PathA, TRUE, ProbeOutput(<<LineShort>>))
InputLong  == Input(PathB, TRUE, ProbeOutput(<<LineLong, LineDate, LineLong>>))

\* the submissions add_videos and add_video are checked on: a path that is no
\* file, a missing probe binary, a probe that cannot be started, a probe output
\* with nothing to parse, an admissible file
AdmitInputs ==
    { Input(PathA, FALSE, ProbeNotFound),
      Input(PathA, TRUE, ProbeNotFound),
      Input(PathA, TRUE, ProbeSpawnError),
      Input(PathA, TRUE, ProbeOutput(<<LineJunk>>)),
      InputLong }

\* the kind of a submission, read off the path and the probe
InputKind(inp) ==
    CASE ~inp.is_file                    -> "notfile"
      [] inp.probe.kind = "NotFound"     -> "absent"
      [] inp.probe.kind = "SpawnError"   -> "spawnerr"
      [] inp.probe.kind = "NotUtf8"      -> "garbled"
      [] inp.probe.exit # 0              -> "failed"
      [] parse_metadata_to_tuple(Dedup(inp.probe.lines)) = [duration |-> None, date |-> None]
                                         -> "noparse"
      [] OTHER                           -> "ok"

\* the kinds of submission for which Video::new returns a video
AdmittedKinds == {"ok", "noparse", "failed"}

AddResult(vs, ret, logged) == [videos |-> vs, ret |-> ret, logged |-> logged]

\* mutant: a missing probe binary is absorbed like the other VideoDataErrors
add_video_absorbs_fatal(vs, inp) ==
    IF inp.is_file
    THEN LET r == VideoNew(inp.path, get_new_video_numeric_id(vs), inp.probe) IN
         IF r.ok THEN AddResult(Append(vs, r.v), "Ok", FALSE)
         ELSE AddResult(vs, "Ok", FALSE)
    ELSE AddResult(vs, "ProcessingError", TRUE)

add_video(vs, inp) ==
    IF inp.is_file
    THEN LET r == VideoNew(inp.path, get_new_video_numeric_id(vs), inp.probe) IN
         CASE r.ok -> AddResult(Append(vs, r.v), "Ok", FALSE)
           [] ~r.ok /\ r.err = Panic                     -> AddResult(vs, Panic, FALSE)
           [] ~r.ok /\ r.err = "FFProbeNotFoundError"    -> AddResult(vs, "GenericError", FALSE)
           [] ~r.ok /\ r.err = "FrameExtractionError"    -> AddResult(vs, "Ok", TRUE)
           [] ~r.ok /\ r.err = "MetadataExtractionError" -> AddResult(vs, "Ok", FALSE)
           [] OTHER -> AddResult(vs, "ProcessingError", TRUE)
    ELSE AddResult(vs, "ProcessingError", TRUE)

(***************************************************************************)
(* add_videos: the for loop over the paths, from the i-th on.  st carries  *)
(* videos, videos_number, the number of add_video calls made and whether   *)
(* log::error! was called.  A panic in add_video ends the loop with the    *)
(* program.                                                                *)
(***************************************************************************)
\* mutant: the Ok arm does not count the submission
on_admitted_uncounted(vn) == vn

\* Ok(_) => self.videos_number += 1
on_admitted(vn) == vn + 1

RECURSIVE add_videos_from(_, _, _)
add_videos_from(st, batch, i) ==
    IF i > Len(batch) THEN [st EXCEPT !.ret = "Ok"]
    ELSE LET r == add_video(st.videos, batch[i]) IN
         IF r.ret = "Ok"
         THEN add_videos_from([st EXCEPT !.videos = r.videos,
                                         !.videos_number = on_admitted(st.videos_number),
                                         !.submitted = i],
                              batch, i + 1)
         ELSE IF r.ret = Panic
         THEN [st EXCEPT !.submitted = i, !.ret = Panic]
         ELSE [st EXCEPT !.videos = r.videos, !.submitted = i,
                         !.ret = r.ret, !.logged = TRUE]

add_videos(vs, vn, batch) ==
    add_videos_from([videos |-> vs, videos_number |-> vn, submitted |-> 0,
                     ret |-> "Ok", logged |-> FALSE], batch, 1)

\* the lists of at most MaxBatch paths drawn from the inputs given, the empty
\* list among them
BatchesOf(inputs) == UNION { [1..n -> inputs] : n \in 0..MaxBatch }

Batches == BatchesOf(AdmitInputs)

Kinds(batch) == [i \in 1..Len(batch) |-> InputKind(batch[i])]

AdmNone == [op |-> "none", kinds |-> <<>>, submitted |-> 0, ret |-> "Ok",
            logged |-> FALSE, len0 |-> 0, vn0 |-> 0]

\* Aspargus::new
Constructed ==
    /\ videos = <<>>
    /\ videos_number = 0
    /\ adm = AdmNone

\* what fs::write does to a file: it writes the text; it cannot open the file;
\* it opens the file, which truncates it, and then fails with nothing or with a
\* part of the text written
WriteOutcomes == {"written", "refused", "emptied", "cut"}

\* the temp folder is made once and never emptied: when the program starts it
\* holds what the earlier runs left, for each path the frames 1 to n of its
\* decoder, n up to a number this run's decoder does not reach
EarlierFrames(paths) == [paths -> 0..(MaxFrames + 1)]
TempFoldersOf(paths) ==
    { UNION { {<<md5_hex(p), k>> : k \in 1..n[p]} : p \in paths } : n \in EarlierFrames(paths) }

TempFolders == TempFoldersOf(Paths)

\* the file export_to_json is given is absent or is one an earlier run wrote
OldContent == <<"[", "]">>
JsonFiles  == {None, Some(OldContent)}

Quiet ==
    /\ phase = "idle"
    /\ tempdir \in TempFolders
    /\ error_holder = 0
    /\ mutex = 0
    /\ wpc = <<>>
    /\ wout = <<>>
    /\ videos0 = <<>>
    /\ extract_ret = "none"
    /\ stages_run = <<>>
    /\ cursor = 0
    /\ inflight = 0
    /\ attempts = <<>>
    /\ requests = <<>>
    /\ errors = <<>>
    /\ rename_log = <<>>
    /\ json_file \in JsonFiles
    /\ export_ret = "none"

\* the settings of Aspargus::new
Loaded ==
    /\ settings \in load_settings
    /\ settings_file = settings
    /\ set_call = NoSetCall
    /\ clients = new_clients(settings)

Init == Constructed /\ Quiet /\ Loaded

\* add_videos on one of the lists given; no call is made after a panic
AddVideosOf(batches) ==
    /\ phase = "idle"
    /\ adm.ret # Panic
    /\ \E batch \in batches :
         LET r == add_videos(videos, videos_number, batch) IN
         /\ Len(r.videos) <= MaxVideos
         /\ r.videos_number <= MaxAttempts
         /\ videos' = r.videos
         /\ videos_number' = r.videos_number
         /\ adm' = [op |-> "add_videos", kinds |-> Kinds(batch),
                    submitted |-> r.submitted, ret |-> r.ret, logged |-> r.logged,
                    len0 |-> Len(videos), vn0 |-> videos_number]
    /\ UNCHANGED <<phase, videos0, extractVars, stageVars, rename_log, exportVars, settingsVars>>

AddVideos == AddVideosOf(Batches)

AddVideoOf(inputs) ==
    /\ phase = "idle"
    /\ adm.ret # Panic
    /\ \E inp \in inputs :
         LET r == add_video(videos, inp) IN
         /\ Len(r.videos) <= MaxVideos
         /\ videos' = r.videos
         /\ adm' = [op |-> "add_video", kinds |-> <<InputKind(inp)>>,
                    submitted |-> 1, ret |-> r.ret, logged |-> r.logged,
                    len0 |-> Len(videos), vn0 |-> videos_number]
    /\ UNCHANGED <<videos_number, phase, videos0, extractVars, stageVars, rename_log, exportVars, settingsVars>>

AddVideo == AddVideoOf(AdmitInputs)

NextAdmit == AddVideos \/ AddVideo

SpecAdmit == Init /\ [][NextAdmit]_vars

(***************************************************************************)
(* add_videos on files whose probe ran: it exited with an error, having    *)
(* printed nothing or a duration; its output is not UTF-8; its output has  *)
(* nothing to parse; it gave a duration and a date.                        *)
(***************************************************************************)
InputFailed      == Input(PathA, TRUE, ProbeFailed(<<>>))
InputFailedShort == Input(PathA, TRUE, ProbeFailed(<<LineShort>>))
InputNotUtf8     == Input(PathA, TRUE, ProbeNotUtf8)

ProbedInputs ==
    { InputFailed, InputFailedShort, InputNotUtf8,
      Input(PathA, TRUE, ProbeOutput(<<LineJunk>>)), InputLong }

AddProbedVideos == AddVideosOf(BatchesOf(ProbedInputs))

NextProbed == AddProbedVideos

SpecProbed == Init /\ [][NextProbed]_vars

(***************************************************************************)
(* Claims on admission.                                                    *)
(***************************************************************************)
\* the number of the first n submissions that are of one of the kinds ks
CountKind(kinds, n, ks) == Cardinality({i \in 1..n : kinds[i] \in ks})

\* the number of the first n submissions for which Video::new returns a video
CountOk(kinds, n) == CountKind(kinds, n, AdmittedKinds)

\* C1: the numeric ids of the catalog are 1, 2, 3, ... in catalog order (unique,
\* strictly increasing, starting at 1), and an admission call adds exactly one
\* video per successful admission: a failed admission consumes no id.
C1_NumericIds ==
    /\ \A i \in 1..Len(videos) : videos[i].numeric_id = i
    /\ adm.op # "none" => Len(videos) = adm.len0 + CountOk(adm.kinds, adm.submitted)

\* a failed admission between two successful ones
C1_Witness ==
    /\ adm.op = "add_videos"
    /\ adm.len0 >= 1
    /\ adm.submitted = 2
    /\ adm.kinds[1] = "spawnerr"
    /\ adm.kinds[2] = "ok"
    /\ videos[Len(videos)].numeric_id = adm.len0 + 1

\* C6: in add_videos a path that is not an existing regular file does not abort the
\* batch: with no other kind of failure in the list, every path of the list is
\* submitted for admission.
C6_NotFileContinues ==
    (/\ adm.op = "add_videos"
     /\ \A i \in 1..Len(adm.kinds) : adm.kinds[i] \in {"notfile", "ok"})
    => adm.submitted = Len(adm.kinds)

\* C7: when the probe binary is absent for a submitted path, the admission returns
\* the fatal error, no later path is submitted and no video is added after it.
C7_FatalAborts ==
    adm.op # "none" =>
        \A i \in 1..adm.submitted :
            adm.kinds[i] = "absent" =>
                /\ adm.ret = "GenericError"
                /\ adm.submitted = i
                /\ Len(videos) = adm.len0 + CountOk(adm.kinds, i - 1)

\* a missing probe binary in front of an admissible path, on a non-empty catalog
C7_Witness ==
    /\ adm.op = "add_videos"
    /\ adm.len0 >= 1
    /\ Len(adm.kinds) = 2
    /\ adm.kinds[1] = "absent"
    /\ adm.kinds[2] = "ok"
    /\ adm.ret = "GenericError"
    /\ Len(videos) = adm.len0

\* C8: a probe that runs but fails, or whose output has no parseable value, fails
\* the admission of that file only: the video is not added and no id is consumed,
\* and add_videos goes on with the following paths.
C8_ProbeFailureDropsOne ==
    adm.op = "add_videos" =>
        \A i \in 1..adm.submitted :
            adm.kinds[i] \in {"failed", "garbled", "noparse"} =>
                /\ i < Len(adm.kinds) => adm.submitted > i
                /\ i = Len(adm.kinds) => adm.ret = "Ok"
                /\ Len(videos) = adm.len0 + CountKind(adm.kinds, adm.submitted, {"ok"})
                /\ \A k \in 1..Len(videos) : videos[k].numeric_id = k

(***************************************************************************)
(* Frame extraction.  The decoder call of one video: what                  *)
(* Command::new("ffmpeg")...status() gave, and the frames the run wrote.   *)
(***************************************************************************)
DecoderNotFound     == [kind |-> "NotFound", exit |-> 0, frames |-> 0]
DecoderSpawnError   == [kind |-> "SpawnError", exit |-> 0, frames |-> 0]
DecoderRan(exit, n) == [kind |-> "Ran", exit |-> exit, frames |-> n]

DecoderOutcomes ==
    {DecoderNotFound, DecoderSpawnError}
        \cup {DecoderRan(exit, n) : exit \in {0, 1}, n \in 0..MaxFrames}

NoCall == [kind |-> "none", exit |-> 0, frames |-> 0, written |-> 0, divisor |-> 1,
           seen |-> FALSE]

\* the divisor of the "fps=1/<gap>" filter argument
fps_divisor(video) == video.gap

\* the files "<id>_%04d.png" a decoder run writes into the temp folder
frames_written(video, n) == {<<video.id, k>> : k \in 1..n}

\* the file the decoder writes next, after k of them
next_frame(video, k) == <<video.id, k + 1>>

\* the Result of extract_frames_for_video as far as status decides it
extract_status(outcome) ==
    CASE outcome.kind = "NotFound"   -> Err("FFMpegNotFoundError")
      [] outcome.kind = "SpawnError" -> Err("FrameExtractionError")
      [] OTHER                       -> Ok(<<>>)

RECURSIVE SortedSeq(_)
SortedSeq(S) ==
    IF S = {} THEN <<>>
    ELSE LET m == CHOOSE x \in S : \A y \in S : x[2] <= y[2]
         IN  <<m>> \o SortedSeq(S \ {m})

\* glob "<temp_folder>/<id>_[0-9]*.png", in alphabetical order
list_matching_files(dir, video_id) ==
    SortedSeq({f \in dir : f[1] = video_id})

\* mutant: a successful extraction makes the video eligible again
on_extraction_ok_clears_skip(video, thumbnails) ==
    [video EXCEPT !.thumbnails = thumbnails, !.skip = FALSE]

\* the Ok arm of the closure of extract_frames: video.thumbnails = thumbnails
on_extraction_ok(video, thumbnails) == [video EXCEPT !.thumbnails = thumbnails]

\* mutant: an extraction error leaves the video as it is
on_extraction_error_ignored(video, err) == video

\* the Err arm of the closure of extract_frames, as far as it writes the video
on_extraction_error(video, err) ==
    IF err = "FrameExtractionError" THEN [video EXCEPT !.skip = TRUE] ELSE video

\* mutant: every worker that finds the decoder missing stores its error
capture_first_error_overwrites(holder, i) == i

\* if holder.is_none() { *holder = Some(..) }: only the first error is captured
capture_first_error(holder, i) == IF holder = 0 THEN i ELSE holder

\* mutant: the call returns as soon as one closure has finished
for_each_returned_at_first(pcs) == \E i \in 1..Len(pcs) : pcs[i] = "done"

\* par_iter_mut().for_each returns when the closure has returned for every video
for_each_returned(pcs) == \A i \in 1..Len(pcs) : pcs[i] = "done"

\* what extract_frames returns once every closure has finished
extract_frames_result(holder) ==
    IF holder # 0 THEN "ProcessingError" ELSE "Ok"

ExtractStart ==
    /\ phase = "idle"
    /\ phase' = "extract"
    /\ error_holder' = 0
    /\ mutex' = 0
    /\ wpc' = [i \in 1..Len(videos) |-> "start"]
    /\ wout' = [i \in 1..Len(videos) |-> NoCall]
    /\ videos0' = videos
    /\ extract_ret' = "none"
    /\ UNCHANGED <<videos, admVars, tempdir, stageVars, rename_log, exportVars, settingsVars>>

\* extract_frames_for_video up to the start of the decoder: status() spawns the
\* process and waits for it, or returns the error of the spawn
WorkerRunDecoder(i) ==
    /\ phase = "extract"
    /\ wpc[i] = "start"
    /\ \E outcome \in DecoderOutcomes :
         LET st == extract_status(outcome) IN
         /\ wout' = [wout EXCEPT ![i] =
                        [kind |-> outcome.kind, exit |-> outcome.exit,
                         frames |-> outcome.frames, written |-> 0,
                         divisor |-> fps_divisor(videos[i]),
                         seen |-> error_holder # 0]]
         /\ IF st.ok
            THEN /\ wpc' = [wpc EXCEPT ![i] = "wait"]
                 /\ UNCHANGED videos
            ELSE /\ videos' = [videos EXCEPT ![i] = on_extraction_error(@, st.err)]
                 /\ wpc' = [wpc EXCEPT ![i] =
                               IF st.err = "FFMpegNotFoundError" THEN "lock" ELSE "done"]
    /\ UNCHANGED <<admVars, phase, tempdir, error_holder, mutex, videos0, extract_ret,
                   stageVars, rename_log, exportVars, settingsVars>>

\* the decoder process writes its frames one file after the other while the
\* closure waits in status()
DecoderWritesFrame(i) ==
    /\ phase = "extract"
    /\ wpc[i] = "wait"
    /\ wout[i].written < wout[i].frames
    /\ tempdir' = tempdir \cup {next_frame(videos[i], wout[i].written)}
    /\ wout' = [wout EXCEPT ![i].written = @ + 1]
    /\ UNCHANGED <<videos, admVars, phase, error_holder, mutex, wpc, videos0, extract_ret,
                   stageVars, rename_log, exportVars, settingsVars>>

\* the decoder process has exited: status() returns Ok(exit status)
WorkerDecoderExited(i) ==
    /\ phase = "extract"
    /\ wpc[i] = "wait"
    /\ wout[i].written = wout[i].frames
    /\ wpc' = [wpc EXCEPT ![i] = "ran"]
    /\ UNCHANGED <<videos, admVars, phase, tempdir, error_holder, mutex, wout, videos0,
                   extract_ret, stageVars, rename_log, exportVars, settingsVars>>

\* list_matching_files and the Ok arm: video.thumbnails = thumbnails
WorkerListThumbnails(i) ==
    /\ phase = "extract"
    /\ wpc[i] = "ran"
    /\ videos' = [videos EXCEPT ![i] =
                      on_extraction_ok(@, list_matching_files(tempdir, videos[i].id))]
    /\ wpc' = [wpc EXCEPT ![i] = "done"]
    /\ UNCHANGED <<admVars, phase, tempdir, error_holder, mutex, wout, videos0,
                   extract_ret, stageVars, rename_log, exportVars, settingsVars>>

\* error_holder.lock().unwrap()
WorkerLock(i) ==
    /\ phase = "extract"
    /\ wpc[i] = "lock"
    /\ mutex = 0
    /\ mutex' = i
    /\ wpc' = [wpc EXCEPT ![i] = "locked"]
    /\ UNCHANGED <<videos, admVars, phase, tempdir, error_holder, wout, videos0,
                   extract_ret, stageVars, rename_log, exportVars, settingsVars>>

\* if holder.is_none() { *holder = Some(..) }
WorkerStoreError(i) ==
    /\ phase = "extract"
    /\ wpc[i] = "locked"
    /\ error_holder' = capture_first_error(error_holder, i)
    /\ wpc' = [wpc EXCEPT ![i] = "unlock"]
    /\ UNCHANGED <<videos, admVars, phase, tempdir, mutex, wout, videos0,
                   extract_ret, stageVars, rename_log, exportVars, settingsVars>>

\* the guard is dropped at the end of the arm
WorkerUnlock(i) ==
    /\ phase = "extract"
    /\ wpc[i] = "unlock"
    /\ mutex' = 0
    /\ wpc' = [wpc EXCEPT ![i] = "done"]
    /\ UNCHANGED <<videos, admVars, phase, tempdir, error_holder, wout, videos0,
                   extract_ret, stageVars, rename_log, exportVars, settingsVars>>

\* for_each returns when every closure has; the holder is taken and turned into
\* the Result
ExtractJoin ==
    /\ phase = "extract"
    /\ for_each_returned(wpc)
    /\ mutex = 0
    /\ extract_ret' = extract_frames_result(error_holder)
    /\ error_holder' = 0
    /\ phase' = "idle"
    /\ UNCHANGED <<videos, admVars, tempdir, mutex, wpc, wout, videos0, stageVars, rename_log, exportVars, settingsVars>>

Worker ==
    \E i \in 1..Len(videos) :
        \/ WorkerRunDecoder(i)
        \/ DecoderWritesFrame(i)
        \/ WorkerDecoderExited(i)
        \/ WorkerListThumbnails(i)
        \/ WorkerLock(i)
        \/ WorkerStoreError(i)
        \/ WorkerUnlock(i)

\* main calls extract_frames once
ExtractOnce ==
    /\ extract_ret = "none"
    /\ ExtractStart

NextExtract == ExtractOnce \/ Worker \/ ExtractJoin

(***************************************************************************)
(* The catalogs extract_frames is checked on: Aspargus::new() followed by  *)
(* one add_videos over admissible files, the 2 second file and the 120.5   *)
(* second file in turn (the third path is the first one again).            *)
(***************************************************************************)
PipelineBatches ==
    { [i \in 1..n |-> IF i % 2 = 1 THEN InputShort ELSE InputLong] : n \in 1..MaxVideos }

Admitted ==
    \E batch \in PipelineBatches :
        LET r == add_videos(<<>>, 0, batch) IN
        /\ videos = r.videos
        /\ videos_number = r.videos_number
        /\ adm = [op |-> "add_videos", kinds |-> Kinds(batch),
                  submitted |-> r.submitted, ret |-> r.ret, logged |-> r.logged,
                  len0 |-> 0, vn0 |-> 0]

InitExtract == Admitted /\ Quiet /\ Loaded

SpecExtract == InitExtract /\ [][NextExtract]_vars

(***************************************************************************)
(* Claims on frame extraction.                                             *)
(***************************************************************************)
ExtractReturned == phase = "idle" /\ extract_ret # "none"

\* C2: when extract_frames has returned: if the decoder of some video A was not
\* found the call returned the fatal error (one Result, and Ok otherwise); every
\* video B whose decoder could not be run for another reason has skip = true; and
\* every other video had its decoder call made, kept its skip flag, and holds the
\* frames its decoder wrote.
C2_FatalOnceOthersIndependent ==
    ExtractReturned =>
        /\ extract_ret = IF \E a \in 1..Len(videos) : wout[a].kind = "NotFound"
                         THEN "ProcessingError" ELSE "Ok"
        /\ \A b \in 1..Len(videos) : wout[b].kind = "SpawnError" => videos[b].skip
        /\ \A c \in 1..Len(videos) :
              /\ wout[c].kind # "none"
              /\ wout[c].kind = "Ran" =>
                    /\ videos[c].skip = videos0[c].skip
                    /\ frames_written(videos[c], wout[c].frames) \subseteq Range(videos[c].thumbnails)
                    /\ Range(videos[c].thumbnails) \subseteq tempdir

\* A not found, B not runnable, C extracted: three distinct videos of one call
C2_Witness ==
    /\ ExtractReturned
    /\ extract_ret = "ProcessingError"
    /\ \E a, b, c \in 1..Len(videos) :
          /\ wout[a].kind = "NotFound"
          /\ wout[b].kind = "SpawnError" /\ videos[b].skip
          /\ wout[c].kind = "Ran" /\ wout[c].frames >= 1
          /\ videos[c].thumbnails # <<>> /\ ~videos[c].skip

\* C3: a video whose decoder ran and exited with a non-zero status, or ran and
\* wrote no frame, has skip = true when extract_frames has returned.
C3_FailedRunSkips ==
    ExtractReturned =>
        \A i \in 1..Len(videos) :
            (wout[i].kind = "Ran" /\ (wout[i].exit # 0 \/ wout[i].frames = 0))
                => videos[i].skip

\* C18: while extract_frames runs, the first fatal error cell is written at most
\* once: a step changes it only from empty, only by the worker that holds the
\* mutex, and to that worker's error; and at most one worker is between its lock
\* and its unlock, the one the mutex records.
C18_FirstWriterWins ==
    [][(phase = "extract" /\ phase' = "extract") =>
          /\ error_holder # 0 => error_holder' = error_holder
          /\ error_holder' # error_holder =>
                /\ mutex # 0
                /\ wpc[mutex] = "locked"
                /\ error_holder' = mutex
          /\ \A i \in 1..Len(videos) : wpc[i] \in {"locked", "unlock"} <=> mutex = i]_vars

\* two workers found the decoder missing; the second came to the cell when it was
\* full and left it as it was
C18_Witness ==
    /\ phase = "extract"
    /\ \E a, b \in 1..Len(videos) :
          /\ a # b
          /\ error_holder = a
          /\ wout[b].kind = "NotFound"
          /\ wpc[b] = "done"

\* C19: extract_frames has no cancellation: while it runs, a worker that has not
\* made its decoder call can make it, and a decoder that runs can go on to its
\* end, whatever the cell holds; and when the call has returned every worker has
\* made its decoder call and finished.
C19_NoCancellation ==
    /\ phase = "extract" =>
          \A i \in 1..Len(videos) :
              /\ wpc[i] = "start" => ENABLED WorkerRunDecoder(i)
              /\ wpc[i] = "wait" =>
                    ENABLED (DecoderWritesFrame(i) \/ WorkerDecoderExited(i))
    /\ ExtractReturned =>
          \A i \in 1..Len(videos) : wpc[i] = "done" /\ wout[i].kind # "none"

\* a decoder call made when the fatal error was already in the cell, which wrote
\* the frames its video holds
C19_Witness ==
    /\ ExtractReturned
    /\ extract_ret = "ProcessingError"
    /\ \E c \in 1..Len(videos) :
          /\ wout[c].seen
          /\ wout[c].kind = "Ran"
          /\ wout[c].frames >= 1
          /\ videos[c].thumbnails # <<>>

\* C24: thumbnail writes into the shared temp directory are collision-free: for
\* every catalog reachable through add_videos, no two extraction workers of one
\* extract_frames call write the same thumbnail file, and no two catalog entries
\* claim the same file through the glob match (their thumbnail name sets are
\* disjoint).
C24_ThumbnailsDisjoint ==
    \A i, j \in 1..Len(videos) :
        i # j =>
            /\ Range(videos[i].thumbnails) \cap Range(videos[j].thumbnails) = {}
            /\ (i <= Len(wout) /\ j <= Len(wout)) =>
                   frames_written(videos[i], wout[i].frames)
                       \cap frames_written(videos[j], wout[j].frames) = {}

\* C9: the divisor of the fps filter of every request the decoder received is
\* at least 1 (1 frame per max(gap, 1) seconds).
C9_DivisorAtLeastOne ==
    \A i \in 1..Len(wout) : wout[i].kind = "Ran" => wout[i].divisor >= 1

(***************************************************************************)
(* The model stages.  A response of an endpoint is a sequence of           *)
(* characters; "r" stands for the members of a well-formed resume object.  *)
(***************************************************************************)
RespJson  == <<"{", "r", "}">>
RespNoisy == <<"n", "{", "r", "}", "t">>
RespJunk  == <<"n">>
Responses == {RespJson, RespNoisy, RespJunk}

Resume1 == [title |-> <<"T">>, description |-> <<"D", "\"", "\n">>, keywords |-> << <<"k">> >>]

\* serde_json::from_str::<Resume>
serde_json_from_str(text) ==
    IF text = RespJson THEN Ok(Resume1) ELSE Err("serde_json::Error")

\* Regex \{(?:[^{}]*|(?R))*\} with (?R) an empty-matching flag group: the
\* leftmost "{" that is followed by characters other than braces and a "}"
extract_json(input) ==
    LET starts == {i \in 1..Len(input) :
                     /\ input[i] = "{"
                     /\ \E j \in (i + 1)..Len(input) :
                           /\ input[j] = "}"
                           /\ \A k \in (i + 1)..(j - 1) : input[k] \notin {"{", "}"}}
    IN  IF starts = {} THEN None
        ELSE LET i == CHOOSE x \in starts : \A y \in starts : x <= y
                 j == CHOOSE x \in (i + 1)..Len(input) :
                         /\ input[x] = "}"
                         /\ \A k \in (i + 1)..(x - 1) : input[k] \notin {"{", "}"}
             IN  Some(SubSeq(input, i, j))

Stories == {"", "A story."}

Stages == {"vision", "only", "resume"}

NetError     == [net |-> FALSE, story |-> "", text |-> <<>>]
NetOk(st, t) == [net |-> TRUE, story |-> st, text |-> t]

\* what ollama.generate(..).await gives: an error, or a response text
Replies(stage) ==
    IF stage = "vision"
    THEN {NetError} \cup {NetOk(st, <<>>) : st \in Stories}
    ELSE {NetError} \cup {NetOk("", t) : t \in Responses}

\* mutant: a skipped video is processed like the others
bypassed_never(video) == FALSE

\* if video.skip { log::info!(.. Skipping ..) } else { .. }
bypassed(video) == video.skip

\* the endpoint a stage sends its requests to
endpoint(stage) == IF stage = "resume" THEN "text_ollama" ELSE "cv_ollama"

\* mutant: the resume helper sends its request whatever the story
fails_before_request_story_unchecked(stage, video, readable) ==
    IF stage = "resume" THEN FALSE
    ELSE video.thumbnails # <<>> /\ ~readable

\* the part of the per-video helper in front of the request: TRUE when it returns
\* Err without sending one (an unreadable thumbnail; no story to resume)
fails_before_request(stage, video, readable) ==
    IF stage = "resume" THEN video.story = ""
    ELSE video.thumbnails # <<>> /\ ~readable

\* the part of the per-video helper behind the request
helper_result(stage, reply) ==
    CASE ~reply.net -> Err("anyhow")
      [] reply.net /\ stage = "vision" -> Ok(reply.story)
      [] reply.net /\ stage = "resume" -> serde_json_from_str(reply.text)
      [] OTHER -> LET json == extract_json(reply.text) IN
                  IF json.some THEN serde_json_from_str(json.v) ELSE Err("anyhow")

\* mutant: storing the resume drops the story it was made from
store_result_drops_story(stage, video, value) ==
    IF stage = "vision" THEN [video EXCEPT !.story = value]
    ELSE [video EXCEPT !.resume = value, !.story = ""]

\* the Ok arm of the stage: the field the stage writes
store_result(stage, video, value) ==
    IF stage = "vision" THEN [video EXCEPT !.story = value]
    ELSE [video EXCEPT !.resume = value]

\* mutant: the loop is left at the first error
next_video_stops_on_error(c, n, ok) == IF ok THEN c + 1 ELSE n + 1

\* the for loop goes on to the next video whatever the arm taken
next_video(c, n, ok) == c + 1

\* mutant: the helper's future is not awaited before the loop goes on
awaited_detached(pending) == TRUE

\* helper(..).await inside the for loop: the loop is resumed only when no request
\* of it is pending
awaited(pending) == pending = 0

StageStart(stage) ==
    /\ phase = "idle"
    /\ stages_run' = Append(stages_run, stage)
    /\ phase' = stage
    /\ cursor' = 1
    /\ inflight' = 0
    /\ attempts' = <<>>
    /\ requests' = <<>>
    /\ errors' = <<>>
    /\ videos0' = videos
    /\ UNCHANGED <<videos, admVars, extractVars, rename_log, exportVars, settingsVars>>

\* the loop body up to the .await of the request
StageVideo ==
    /\ phase \in Stages
    /\ awaited(inflight)
    /\ cursor <= Len(videos)
    /\ IF bypassed(videos[cursor])
       THEN /\ cursor' = next_video(cursor, Len(videos), TRUE)
            /\ UNCHANGED <<inflight, attempts, requests, errors>>
       ELSE /\ attempts' = Append(attempts, cursor)
            /\ \E readable \in BOOLEAN :
                 IF fails_before_request(phase, videos[cursor], readable)
                 THEN /\ errors' = Append(errors, cursor)
                      /\ cursor' = next_video(cursor, Len(videos), FALSE)
                      /\ UNCHANGED <<inflight, requests>>
                 ELSE /\ requests' = Append(requests,
                                            [to |-> endpoint(phase), video |-> cursor])
                      /\ inflight' = cursor
                      /\ UNCHANGED <<cursor, errors>>
    /\ UNCHANGED <<videos, admVars, phase, videos0, extractVars, stages_run, rename_log, exportVars, settingsVars>>

\* the response arrives: the rest of the helper and the match on its Result
StageReply ==
    /\ phase \in Stages
    /\ inflight # 0
    /\ \E reply \in Replies(phase) :
         LET r == helper_result(phase, reply) IN
         IF r.ok
         THEN /\ videos' = [videos EXCEPT ![inflight] = store_result(phase, @, r.v)]
              /\ cursor' = next_video(cursor, Len(videos), TRUE)
              /\ UNCHANGED errors
         ELSE /\ errors' = Append(errors, inflight)
              /\ cursor' = next_video(cursor, Len(videos), FALSE)
              /\ UNCHANGED videos
    /\ inflight' = 0
    /\ UNCHANGED <<admVars, phase, videos0, extractVars, stages_run, attempts, requests,
                   rename_log, exportVars, settingsVars>>

StageReturn ==
    /\ phase \in Stages
    /\ awaited(inflight)
    /\ cursor > Len(videos)
    /\ phase' = "idle"
    /\ UNCHANGED <<videos, admVars, videos0, extractVars, stageVars, rename_log, exportVars, settingsVars>>

RunComputerVisionModel     == StageStart("vision")
RunOnlyComputerVisionModel == StageStart("only")
RunResumeModel             == StageStart("resume")

\* Aspargus::is_two_steps
is_two_steps == settings.two_steps

\* main, after extract_frames: if is_two_steps() the vision stage and then the
\* resume stage, else the single-step stage
TwoStepsVision ==
    /\ is_two_steps
    /\ extract_ret # "none"
    /\ stages_run = <<>>
    /\ RunComputerVisionModel

\* mutant: main calls run_resume_model in front of run_computer_vision_model
resume_turn_first(run) == run = <<>>

\* main calls run_resume_model when run_computer_vision_model().await has returned
resume_turn(run) == run = <<"vision">>

TwoStepsResume ==
    /\ resume_turn(stages_run)
    /\ RunResumeModel

SingleStep ==
    /\ ~is_two_steps
    /\ extract_ret # "none"
    /\ stages_run = <<>>
    /\ RunOnlyComputerVisionModel

StagesDone ==
    /\ phase = "idle"
    /\ stages_run \in { <<"vision", "resume">>, <<"only">> }

NextStages ==
    \/ TwoStepsVision
    \/ TwoStepsResume
    \/ SingleStep
    \/ StageVideo
    \/ StageReply
    \/ StageReturn

(***************************************************************************)
(* The catalogs the model stages are checked on: Aspargus::new(), one      *)
(* add_videos over admissible files, one extract_frames.                   *)
(*                                                                         *)
(* extract_frames runs its closures in parallel.  The closure of a video   *)
(* lists the temp folder after its own decoder has exited, at a moment     *)
(* when the decoder of any other video has written none, some or all of    *)
(* its frames, in the order of their numbers; only the frames with the     *)
(* video's id are listed.  The lists the closures of one call can get are  *)
(* independent of each other: a schedule that lets the closures list in    *)
(* the order of the highest number they see, each decoder having written   *)
(* up to that number by then, gives any combination of them.               *)
(***************************************************************************)
\* the files that can be in the folder when the closure of video i lists it
listable(vs, dir, outcomes, i) ==
    LET others == {j \in 1..Len(vs) : j # i /\ extract_status(outcomes[j]).ok}
        sofar  == {0} \cup UNION { 1..outcomes[j].frames : j \in others }
    IN  { dir \cup frames_written(vs[i], outcomes[i].frames)
              \cup UNION { frames_written(vs[j], IF outcomes[j].frames < m
                                                  THEN outcomes[j].frames ELSE m)
                             : j \in others }
          : m \in sofar }

\* the catalogs and the folder extract_frames can leave
extract_frames_results(vs, dir, outcomes) ==
    LET n     == Len(vs)
        final == dir \cup UNION { frames_written(vs[i], outcomes[i].frames) : i \in 1..n }
        lists == { l \in [1..n -> SUBSET final] :
                     \A i \in 1..n : l[i] \in listable(vs, dir, outcomes, i) }
    IN  { [videos |->
              [i \in 1..n |->
                  LET st == extract_status(outcomes[i]) IN
                  IF st.ok
                  THEN on_extraction_ok(vs[i], list_matching_files(l[i], vs[i].id))
                  ELSE on_extraction_error(vs[i], st.err)],
           tempdir |-> final] : l \in lists }

StageOutcomes == {DecoderNotFound, DecoderSpawnError, DecoderRan(0, 1), DecoderRan(1, 0)}

Extracted ==
    \E batch \in PipelineBatches :
        \E outcomes \in [1..Len(batch) -> StageOutcomes] :
            LET a == add_videos(<<>>, 0, batch) IN
            \E dir \in TempFolders : \E e \in extract_frames_results(a.videos, dir, outcomes) :
                /\ videos = e.videos
                /\ tempdir = e.tempdir
                /\ videos0 = a.videos
                /\ videos_number = a.videos_number
                /\ adm = [op |-> "add_videos", kinds |-> Kinds(batch),
                          submitted |-> a.submitted, ret |-> a.ret, logged |-> a.logged,
                          len0 |-> 0, vn0 |-> 0]
                /\ extract_ret = extract_frames_result(
                                    IF \E i \in 1..Len(batch) : outcomes[i].kind = "NotFound"
                                    THEN 1 ELSE 0)
                /\ wpc = [i \in 1..Len(batch) |-> "done"]
                /\ wout = [i \in 1..Len(batch) |->
                              [kind |-> outcomes[i].kind, exit |-> outcomes[i].exit,
                               frames |-> outcomes[i].frames,
                               written |-> outcomes[i].frames,
                               divisor |-> fps_divisor(a.videos[i]),
                               seen |-> \E k \in 1..(i - 1) : outcomes[k].kind = "NotFound"]]

InitStages ==
    /\ Extracted
    /\ phase = "idle"
    /\ error_holder = 0
    /\ mutex = 0
    /\ stages_run = <<>>
    /\ cursor = 0
    /\ inflight = 0
    /\ attempts = <<>>
    /\ requests = <<>>
    /\ errors = <<>>
    /\ rename_log = <<>>
    /\ json_file \in JsonFiles
    /\ export_ret = "none"
    /\ Loaded

SpecStages == InitStages /\ [][NextStages]_vars

(***************************************************************************)
(* Claims on the model stages.                                             *)
(***************************************************************************)
RECURSIVE NotSkippedUpTo(_, _)
NotSkippedUpTo(vs, k) ==
    IF k = 0 THEN <<>>
    ELSE IF vs[k].skip THEN NotSkippedUpTo(vs, k - 1)
         ELSE Append(NotSkippedUpTo(vs, k - 1), k)

\* the videos the loop of the stage in progress has taken up so far
TakenUp == IF inflight # 0 THEN cursor ELSE cursor - 1

\* C4: in a model stage a video whose skip is true is not handed to the helper,
\* gets no request sent to an endpoint, is not written, and no error is logged
\* for it.
C4_SkippedBypassed ==
    phase \in Stages =>
        \A i \in 1..Len(videos) :
            videos0[i].skip =>
                /\ videos[i] = videos0[i]
                /\ i \notin Range(attempts)
                /\ i \notin Range(errors)
                /\ \A k \in 1..Len(requests) : requests[k].video # i

\* the resume stage has passed a skipped video and sent the request of a later one
C4_Witness ==
    /\ phase = "resume"
    /\ cursor > Len(videos)
    /\ \E i, j \in 1..Len(videos) :
          /\ i < j
          /\ videos0[i].skip
          /\ \E k \in 1..Len(requests) : requests[k].video = j

\* C10: a failure for one video does not stop a model stage: the videos handed to
\* the helper so far are exactly the non-skipped videos the loop has taken up, each
\* once and in catalog order, and no skip flag changes during the stage.
C10_FailureDoesNotStopStage ==
    phase \in Stages =>
        /\ attempts = NotSkippedUpTo(videos0, TakenUp)
        /\ \A i \in 1..Len(videos) : videos[i].skip = videos0[i].skip

\* the first video attempted failed, a later one got its request and the loop is over
C10_Witness ==
    /\ phase \in Stages
    /\ cursor > Len(videos)
    /\ Len(errors) >= 1
    /\ errors[1] = attempts[1]
    /\ \E k \in 1..Len(requests) : requests[k].video > errors[1]
    /\ errors[Len(errors)] # attempts[Len(attempts)]

\* C11: in run_resume_model a non-skipped video whose story is empty fails for
\* itself only: once the loop has passed it, no request was sent to the text
\* endpoint for it, its resume is the one it had, an error was logged for it, and
\* the loop has gone on (every non-skipped video the loop has taken up was handed
\* to the helper).
C11_EmptyStoryFailsAlone ==
    phase = "resume" =>
        /\ \A i \in 1..(cursor - 1) :
              (~videos0[i].skip /\ videos0[i].story = "") =>
                  /\ \A k \in 1..Len(requests) : requests[k].video # i
                  /\ videos[i].resume = videos0[i].resume
                  /\ i \in Range(errors)
                  /\ i \in Range(attempts)
        /\ \A i \in 1..TakenUp : ~videos0[i].skip => i \in Range(attempts)
        /\ \A k \in 1..Len(requests) : requests[k].to = "text_ollama"

\* a video without a story in front of one with a story, whose request was sent
C11_Witness ==
    /\ phase = "resume"
    /\ cursor > Len(videos)
    /\ \E i, j \in 1..Len(videos) :
          /\ i < j
          /\ ~videos0[i].skip /\ videos0[i].story = ""
          /\ i \in Range(errors)
          /\ videos0[j].story # ""
          /\ \E k \in 1..Len(requests) : requests[k].video = j

\* C23: model invocation is serialized by video: a request (to the vision or to
\* the text endpoint) is issued only when no request is in flight, inside a stage
\* in progress, and it is the only one in flight; the request of the next video is
\* issued only after the one of the previous video has completed or failed; no
\* request is in flight outside a stage.
C23_OneRequestAtATime ==
    [][ /\ requests' # requests => inflight = 0
        /\ Len(requests') > Len(requests) =>
              /\ phase' \in Stages
              /\ requests' = Append(requests, [to |-> endpoint(phase'), video |-> inflight'])
              /\ \A k \in 1..Len(requests) : requests[k].video < inflight'
        /\ phase' \notin Stages => inflight' = 0 ]_vars

\* the request of a second video is in flight after the one of an earlier video
\* failed and the one of another was answered
C23_Witness ==
    /\ phase \in Stages
    /\ inflight # 0
    /\ Len(requests) = 3
    /\ requests[3].video = inflight
    /\ requests[1].video \in Range(errors)
    /\ requests[2].video \notin Range(errors)

\* the videos of the requests sent so far by the stage in progress
Requested == {requests[k].video : k \in 1..Len(requests)}

\* C27: in the two-step topology a run issues the vision request of every
\* non-skipped video before it issues the first text (resume) request, and the
\* requests inside each phase are issued in catalog order: a text request is sent
\* only in the resume stage and a vision request only while no resume stage has
\* been started; the stages started only grow; and the resume stage starts only
\* when the loop of the vision stage has passed every video, having handed every
\* non-skipped video to the helper and sent the request of each one whose helper
\* got as far as the request.
C27_VisionBeforeText ==
    [][ /\ Len(requests') > Len(requests) =>
              LET q == requests'[Len(requests')] IN
              /\ q.to = "text_ollama" => (phase = "resume" /\ stages_run = <<"vision", "resume">>)
              /\ q.to = "cv_ollama" => (phase \in {"vision", "only"} /\ "resume" \notin Range(stages_run))
              /\ \A k \in 1..Len(requests) : requests[k].video < q.video
        /\ stages_run' # stages_run => \E stage \in Stages : stages_run' = Append(stages_run, stage)
        /\ (stages_run' # stages_run /\ stages_run'[Len(stages_run')] = "resume") =>
              /\ stages_run = <<"vision">>
              /\ cursor > Len(videos) /\ inflight = 0
              /\ attempts = NotSkippedUpTo(videos, Len(videos))
              /\ \A k \in 1..Len(requests) : requests[k].to = "cv_ollama"
              /\ Range(attempts) \ Range(errors) \subseteq Requested ]_vars

\* the first text request is in flight, for the second video, after the vision
\* requests of both videos were answered with a story
C27_Witness ==
    /\ phase = "resume"
    /\ stages_run = <<"vision", "resume">>
    /\ Len(videos) >= 2
    /\ \A i \in 1..Len(videos) : ~videos[i].skip /\ videos[i].story # ""
    /\ requests = <<[to |-> "text_ollama", video |-> 1], [to |-> "text_ollama", video |-> 2]>>
    /\ inflight = 2

\* the field a stage produces
produced(stage) == IF stage = "vision" THEN "story" ELSE "resume"

\* C29: a model stage writes only the field it produces and only on success:
\* run_computer_vision_model writes only story, run_only_computer_vision_model and
\* run_resume_model write only resume; a step of a stage changes at most the
\* video whose request was answered, in that field alone, and a failed call for a
\* video (an error is logged) leaves the whole catalog as it was.
C29_StageWritesOwnField ==
    [][ (phase \in Stages) =>
          (/\ Len(videos') = Len(videos)
           /\ \A i \in 1..Len(videos) :
                 videos'[i] # videos[i] =>
                     (/\ i = inflight
                      /\ errors' = errors
                      /\ videos'[i] = [videos[i] EXCEPT ![produced(phase)] =
                                                           videos'[i][produced(phase)]])
           /\ errors' # errors => videos' = videos) ]_vars

\* the resume stage is over: one video failed and is as it was, another has a new
\* resume and the story it had
C29_Witness ==
    /\ phase = "resume"
    /\ cursor > Len(videos)
    /\ \E i, j \in 1..Len(videos) :
          /\ i \in Range(errors)
          /\ videos[i] = videos0[i]
          /\ j \in Requested
          /\ videos[j].resume # videos0[j].resume
          /\ videos[j].story = videos0[j].story
          /\ videos[j].story # ""

(***************************************************************************)
(* Rename.  Strings are sequences of characters.                           *)
(***************************************************************************)
\* str::replace: every non-overlapping match of pat, from the left (pat # <<>>)
RECURSIVE Replace(_, _, _)
Replace(str, pat, rep) ==
    IF Len(str) < Len(pat) THEN str
    ELSE IF SubSeq(str, 1, Len(pat)) = pat
         THEN rep \o Replace(SubSeq(str, Len(pat) + 1, Len(str)), pat, rep)
         ELSE <<str[1]>> \o Replace(Tail(str), pat, rep)

\* [String]::join
RECURSIVE Join(_, _)
Join(strs, sep) ==
    IF strs = <<>> THEN <<>>
    ELSE IF Len(strs) = 1 THEN strs[1]
         ELSE strs[1] \o sep \o Join(Tail(strs), sep)

DigitChar(d) == <<"0", "1", "2", "3", "4", "5", "6", "7", "8", "9">>[d + 1]

\* i32::to_string of a number >= 0
RECURSIVE ToChars(_)
ToChars(n) == IF n < 10 THEN <<DigitChar(n)>> ELSE Append(ToChars(n \div 10), DigitChar(n % 10))

\* DateTime::format("%m"), format("%d"): two digits
TwoDigits(n) == IF n < 10 THEN <<"0">> \o ToChars(n) ELSE ToChars(n)

LastIndexOf(str, ch) ==
    LET at == {i \in 1..Len(str) : str[i] = ch}
    IN  IF at = {} THEN 0 ELSE CHOOSE i \in at : \A j \in at : j <= i

(***************************************************************************)
(* std::path on Unix.  A path is read as components: the runs of           *)
(* characters between separators, where an empty run (a repeated or a      *)
(* trailing separator) and a "." that is not the first thing of a relative *)
(* path are no components.                                                 *)
(***************************************************************************)
\* the position behind which the run of characters that starts at i ends
RunEnd(path, i) ==
    CHOOSE j \in i..Len(path) :
        /\ \A k \in i..j : path[k] # "/"
        /\ (j = Len(path) \/ path[j + 1] = "/")

\* the start positions of the components (the root is not among them)
Components(path) ==
    {i \in 1..Len(path) :
        /\ path[i] # "/"
        /\ (i = 1 \/ path[i - 1] = "/")
        /\ ~(i > 1 /\ SubSeq(path, i, RunEnd(path, i)) = <<".">>)}

LastComponent(path) ==
    CHOOSE i \in Components(path) : \A k \in Components(path) : k <= i

\* Path::file_name: the last component, None when there is none or it is ".."
\* (or a lone ".")
path_file_name(file_path) ==
    IF Components(file_path) = {} THEN <<>>
    ELSE LET i    == LastComponent(file_path)
             name == SubSeq(file_path, i, RunEnd(file_path, i))
         IN  IF name \in {<<".">>, <<".", ".">>} THEN <<>> ELSE name

\* Path::parent: the path without its last component, as a slice of the text
\* that ends with the component before; "/" when only the root is left, "" for a
\* lone relative component, None when the path has no component
path_parent(file_path) ==
    IF Components(file_path) = {} THEN None
    ELSE LET before == Components(file_path) \ {LastComponent(file_path)} IN
         IF before = {}
         THEN Some(IF file_path[1] = "/" THEN <<"/">> ELSE <<>>)
         ELSE LET i == CHOOSE x \in before : \A k \in before : k <= x
              IN  Some(SubSeq(file_path, 1, RunEnd(file_path, i)))

\* Path::extension: after the last "." of the file name, none when the name has
\* no "." or only a leading one
path_extension(file_path) ==
    LET name == path_file_name(file_path)
        dot  == LastIndexOf(name, ".")
    IN  IF dot <= 1 THEN <<>> ELSE SubSeq(name, dot + 1, Len(name))

\* Path::file_stem
path_file_stem(file_path) ==
    LET name == path_file_name(file_path)
        dot  == LastIndexOf(name, ".")
    IN  IF dot <= 1 THEN name ELSE SubSeq(name, 1, dot - 1)

\* PathBuf::push: an absolute component replaces the path
path_push(base, component) ==
    IF component # <<>> /\ component[1] = "/" THEN component
    ELSE IF base = <<>> THEN component
    ELSE IF base[Len(base)] = "/" THEN base \o component
    ELSE base \o <<"/">> \o component

\* parent.unwrap() panics on None
create_new_path(file_path, new_name) ==
    LET parent == path_parent(file_path) IN
    IF ~parent.some THEN Panic
    ELSE path_push(path_push(<<>>, parent.v),
                   new_name \o <<".">> \o path_extension(file_path))

get_file_name(file_path) == path_file_stem(file_path)

create_new_file_name(video, template) ==
    LET d  == video.creation_date
        n1 == Replace(template, <<"%", "Y">>, ToChars(d.year))
        n2 == Replace(n1, <<"%", "M">>, TwoDigits(d.month))
        n3 == Replace(n2, <<"%", "D">>, TwoDigits(d.day))
        n4 == Replace(n3, <<"%", "T">>, video.resume.title)
        n5 == Replace(n4, <<"%", "K">>, Join(video.resume.keywords, <<"-">>))
        n6 == Replace(n5, <<"%", "J">>, Join(video.resume.keywords, <<",", " ">>))
    IN  Replace(n6, <<"%", "F">>, get_file_name(video.path))

\* the templates given to rename_videos: "%T", "%Y-%M_%F"
Templates == { <<"%", "T">>, <<"%", "Y", "-", "%", "M", "_", "%", "F">> }

\* and the ones the new names are checked on: those, "%T_%K", "%J%F", "%D%K"
NameTemplates ==
    Templates \cup { <<"%", "T", "_", "%", "K">>,
                     <<"%", "J", "%", "F">>,
                     <<"%", "D", "%", "K">> }

\* the videos rename_videos hands to its closure: all of them
renamed(vs) == 1..Len(vs)

\* rename_videos: for every video the new name, the new path and fs::rename, which
\* succeeds or fails; the catalog is not written
RenameWith(templates) ==
    /\ phase = "idle"
    /\ \E template \in templates :
         \E moved \in [renamed(videos) -> BOOLEAN] :
            rename_log' =
                [i \in renamed(videos) |->
                    [template |-> template,
                     name |-> create_new_file_name(videos[i], template),
                     from |-> videos[i].path,
                     to   |-> create_new_path(videos[i].path,
                                              create_new_file_name(videos[i], template)),
                     ok   |-> moved[i]]]
    /\ videos0' = videos
    /\ UNCHANGED <<videos, admVars, phase, extractVars, stageVars, exportVars, settingsVars>>

RenameVideos == RenameWith(Templates)

\* main calls rename_videos once, after the stages and in front of the export
RenameOnce ==
    /\ StagesDone
    /\ rename_log = <<>>
    /\ export_ret = "none"
    /\ RenameVideos

NextRename == NextStages \/ RenameOnce

SpecRename == InitStages /\ [][NextRename]_vars

(***************************************************************************)
(* The new names and paths are checked on catalogs of one video: a file    *)
(* with an extension in upper or lower case or with none, and the resume a *)
(* model stage stored for it, whose title and keywords may hold "%" and    *)
(* "/" as any text of a model can.                                         *)
(***************************************************************************)

InputBare   == Input(PathC, TRUE, ProbeOutput(<<LineLong>>))
InputDotted == Input(PathD, TRUE, ProbeOutput(<<LineLong>>))

NameInputs == {InputShort, InputLong, InputBare, InputDotted}

NameTitles == { <<"T">>, <<"%", "K">>, <<"1", "%", "F">>, <<"/", "t">> }

NameKeywords == { <<>>, << <<"k">> >>, << <<"%", "F">>, <<"j">> >> }

NameResumes ==
    { [title |-> t, description |-> <<"D">>, keywords |-> k] :
          t \in NameTitles, k \in NameKeywords }

\* the paths the earlier runs were given are those of this one
NamePaths == {inp.path : inp \in NameInputs}

Named ==
    \E inp \in NameInputs : \E resume \in NameResumes :
        LET a == add_videos(<<>>, 0, <<inp>>) IN
        \E dir \in TempFoldersOf(NamePaths) :
        \E e \in extract_frames_results(a.videos, dir, <<DecoderRan(0, 1)>>) :
        /\ videos = [i \in 1..Len(e.videos) |-> store_result("only", e.videos[i], resume)]
        /\ videos0 = e.videos
        /\ tempdir = e.tempdir
        /\ wout = <<DecoderRan(0, 1) @@ [written |-> 1, divisor |-> fps_divisor(a.videos[1]),
                                         seen |-> FALSE]>>
        /\ videos_number = a.videos_number
        /\ adm = [op |-> "add_videos", kinds |-> Kinds(<<inp>>),
                  submitted |-> a.submitted, ret |-> a.ret, logged |-> a.logged,
                  len0 |-> 0, vn0 |-> 0]

InitNames ==
    /\ Named
    /\ phase = "idle"
    /\ error_holder = 0
    /\ mutex = 0
    /\ wpc = <<"done">>
    /\ extract_ret = "Ok"
    /\ stages_run = <<"only">>
    /\ cursor = 2
    /\ inflight = 0
    /\ attempts = <<1>>
    /\ requests = <<[to |-> "cv_ollama", video |-> 1]>>
    /\ errors = <<>>
    /\ rename_log = <<>>
    /\ json_file \in JsonFiles
    /\ export_ret = "none"
    /\ settings = SettingsDefault
    /\ settings_file = settings
    /\ set_call = NoSetCall
    /\ clients = new_clients(settings)

NextNames == RenameWith(NameTemplates)

SpecNames == InitNames /\ [][NextNames]_vars

(***************************************************************************)
(* Claims on rename.                                                       *)
(***************************************************************************)
\* the value a token stands for
token_value(video, letter) ==
    CASE letter = "Y" -> ToChars(video.creation_date.year)
      [] letter = "M" -> TwoDigits(video.creation_date.month)
      [] letter = "D" -> TwoDigits(video.creation_date.day)
      [] letter = "T" -> video.resume.title
      [] letter = "K" -> Join(video.resume.keywords, <<"-">>)
      [] letter = "J" -> Join(video.resume.keywords, <<",", " ">>)
      [] OTHER        -> get_file_name(video.path)

\* the template with every token replaced by its value in one pass from the
\* left, the values themselves being copied and never scanned
RECURSIVE OnePass(_, _)
OnePass(template, video) ==
    IF template = <<>> THEN <<>>
    ELSE IF /\ Len(template) >= 2
            /\ template[1] = "%"
            /\ template[2] \in {"Y", "M", "D", "T", "K", "J", "F"}
         THEN token_value(video, template[2])
                  \o OnePass(SubSeq(template, 3, Len(template)), video)
         ELSE <<template[1]>> \o OnePass(Tail(template), video)

\* C13: the new name of a video is its template with each token replaced once:
\* a token sequence inside a substituted title or keyword list stays as it is.
C13_NoRescan ==
    \A i \in DOMAIN rename_log :
        rename_log[i].name = OnePass(rename_log[i].template, videos[i])

\* C5: rename_videos computes a new name and attempts a move only for videos whose
\* skip is false.
C5_RenameOnlyNotSkipped ==
    \A i \in DOMAIN rename_log : ~videos[i].skip

\* the extension of a path as it stands behind the stem: "." and the extension,
\* nothing for a name that has none
extension_suffix(file_path) ==
    IF path_extension(file_path) = <<>> THEN <<>>
    ELSE <<".">> \o path_extension(file_path)

\* C17: the new path of a video is the parent directory of its path joined with
\* the new name followed by the extension of its path, kept as it is.
C17_NewPath ==
    \A i \in DOMAIN rename_log :
        rename_log[i].to =
            path_push(path_parent(rename_log[i].from).v,
                      rename_log[i].name \o extension_suffix(rename_log[i].from))

\* C14: when rename_videos has returned, every video of the catalog had its move
\* attempted; the path of a video whose file was moved is the new path, and the
\* path of a video whose move failed is the one it had.
C14_PathFollowsRename ==
    rename_log # <<>> =>
        /\ DOMAIN rename_log = 1..Len(videos)
        /\ \A i \in DOMAIN rename_log :
              videos[i].path = IF rename_log[i].ok THEN rename_log[i].to
                               ELSE rename_log[i].from

(***************************************************************************)
(* Export.  The JSON text is a sequence of characters, written as          *)
(* serde_json::to_string_pretty writes it (two spaces of indentation) and  *)
(* read back as serde_json::from_str reads it.                             *)
(***************************************************************************)
Chars(str) ==
    CASE str = "path"        -> <<"p", "a", "t", "h">>
      [] str = "story"       -> <<"s", "t", "o", "r", "y">>
      [] str = "resume"      -> <<"r", "e", "s", "u", "m", "e">>
      [] str = "title"       -> <<"t", "i", "t", "l", "e">>
      [] str = "description" -> <<"d", "e", "s", "c", "r", "i", "p", "t", "i", "o", "n">>
      [] OTHER               -> <<"k", "e", "y", "w", "o", "r", "d", "s">>

Quote     == "\""
Backslash == "\\"
Newline   == "\n"
Tab       == "\t"
Return    == "\r"
FormFeed  == "\f"
Backspace == "<U+0008>"

\* the characters U+0000 to U+001F, by code: a character that has no notation
\* of its own is written "<U+XXXX>"
ControlChars ==
    <<"<U+0000>", "<U+0001>", "<U+0002>", "<U+0003>", "<U+0004>", "<U+0005>",
      "<U+0006>", "<U+0007>", "<U+0008>", "\t", "\n", "<U+000B>",
      "\f", "\r", "<U+000E>", "<U+000F>", "<U+0010>", "<U+0011>",
      "<U+0012>", "<U+0013>", "<U+0014>", "<U+0015>", "<U+0016>", "<U+0017>",
      "<U+0018>", "<U+0019>", "<U+001A>", "<U+001B>", "<U+001C>", "<U+001D>",
      "<U+001E>", "<U+001F>" >>

\* the characters U+0020 to U+007E, by code (the grave accent, which a string
\* of this notation cannot hold, is written "<U+0060>")
Ascii ==
    <<" ", "!", "\"", "#", "$", "%", "&", "'", "(", ")", "*", "+",
      ",", "-", ".", "/", "0", "1", "2", "3", "4", "5", "6", "7",
      "8", "9", ":", ";", "<", "=", ">", "?", "@", "A", "B", "C",
      "D", "E", "F", "G", "H", "I", "J", "K", "L", "M", "N", "O",
      "P", "Q", "R", "S", "T", "U", "V", "W", "X", "Y", "Z", "[",
      "\\", "]", "^", "_", "<U+0060>", "a", "b", "c", "d", "e", "f", "g",
      "h", "i", "j", "k", "l", "m", "n", "o", "p", "q", "r", "s",
      "t", "u", "v", "w", "x", "y", "z", "{", "|", "}", "~" >>

Delete   == "<U+007F>"
\* stands for any character above U+007F
NonAscii == "<non-ASCII>"

HexDigits == <<"0", "1", "2", "3", "4", "5", "6", "7", "8", "9", "a", "b", "c", "d", "e", "f">>

\* the code of a control character
ControlCode(ch) == (CHOOSE k \in 1..Len(ControlChars) : ControlChars[k] = ch) - 1

\* serde_json's escape of one character: the quote, the backslash, and the
\* control characters (\b \t \n \f \r, \u00XX with lower case digits for the
\* others); every other character stands for itself
escape_char(ch) ==
    CASE ch = Quote     -> <<Backslash, Quote>>
      [] ch = Backslash -> <<Backslash, Backslash>>
      [] ch = Backspace -> <<Backslash, "b">>
      [] ch = Tab       -> <<Backslash, "t">>
      [] ch = Newline   -> <<Backslash, "n">>
      [] ch = FormFeed  -> <<Backslash, "f">>
      [] ch = Return    -> <<Backslash, "r">>
      [] ch \in Range(ControlChars) ->
            <<Backslash, "u", "0", "0",
              HexDigits[(ControlCode(ch) \div 16) + 1], HexDigits[(ControlCode(ch) % 16) + 1]>>
      [] OTHER -> <<ch>>

\* the characters of a string as they stand between the quotes
RECURSIVE json_escape(_)
json_escape(str) ==
    IF str = <<>> THEN <<>>
    ELSE escape_char(str[1]) \o json_escape(Tail(str))

json_string(str) == <<Quote>> \o json_escape(str) \o <<Quote>>

Indent(level) == [i \in 1..(2 * level) |-> " "]

\* a sequence of texts as the items of an array or the members of an object
RECURSIVE json_items(_, _)
json_items(texts, level) ==
    IF texts = <<>> THEN <<>>
    ELSE <<Newline>> \o Indent(level) \o texts[1]
             \o (IF Len(texts) > 1 THEN <<",">> ELSE <<>>)
             \o json_items(Tail(texts), level)

json_array(texts, level) ==
    IF texts = <<>> THEN <<"[", "]">>
    ELSE <<"[">> \o json_items(texts, level + 1) \o <<Newline>> \o Indent(level) \o <<"]">>

json_object(texts, level) ==
    IF texts = <<>> THEN <<"{", "}">>
    ELSE <<"{">> \o json_items(texts, level + 1) \o <<Newline>> \o Indent(level) \o <<"}">>

json_member(key, text) == json_string(Chars(key)) \o <<":", " ">> \o text

\* Resume derives Serialize: its three fields
resume_to_json(resume, level) ==
    json_object(<< json_member("title", json_string(resume.title)),
                   json_member("description", json_string(resume.description)),
                   json_member("keywords",
                       json_array([i \in 1..Len(resume.keywords) |->
                                      json_string(resume.keywords[i])], level + 1)) >>,
                level)

\* mutant: story has lost its #[serde(skip_serializing)]
video_fields_with_story == <<"path", "story", "resume">>

\* the fields of Video without #[serde(skip_serializing)], in declaration order
video_fields == <<"path", "resume">>

video_member(video, field, level) ==
    CASE field = "path"  -> json_member("path", json_string(video.path))
      [] field = "story" -> json_member("story", json_string(Chars("story")))
      [] OTHER           -> json_member("resume", resume_to_json(video.resume, level))

video_to_json(video, level) ==
    json_object([k \in 1..Len(video_fields) |->
                    video_member(video, video_fields[k], level + 1)], level)

\* serde_json::to_string_pretty(&self.videos)
to_string_pretty(vs) ==
    json_array([i \in 1..Len(vs) |-> video_to_json(vs[i], 1)], 0)

\* the parser: whitespace (space, line feed, tab, carriage return) is skipped
\* between the tokens
RECURSIVE skip_ws(_, _)
skip_ws(text, i) ==
    IF i <= Len(text) /\ text[i] \in {" ", Newline, Tab, Return}
    THEN skip_ws(text, i + 1) ELSE i

At(text, i) == IF i <= Len(text) THEN text[i] ELSE "eof"

Parsed(v, next) == [ok |-> TRUE, v |-> v, next |-> next]
ParseError      == [ok |-> FALSE, v |-> <<>>, next |-> 0]

JStr(str)     == [t |-> "str", s |-> str, a |-> <<>>]
JArr(items)   == [t |-> "arr", s |-> <<>>, a |-> items]
JObj(members) == [t |-> "obj", s |-> <<>>, a |-> members]
\* true, false, null; a number, kept as the text that denotes it
JLit(name)    == [t |-> name, s |-> <<>>, a |-> <<>>]
JNum(digits)  == [t |-> "num", s |-> digits, a |-> <<>>]

\* the value of a hexadecimal digit, 16 for any other character
HexVal(ch) ==
    CASE ch \in Range(HexDigits) -> (CHOOSE k \in 1..Len(HexDigits) : HexDigits[k] = ch) - 1
      [] ch = "A" -> 10 [] ch = "B" -> 11 [] ch = "C" -> 12
      [] ch = "D" -> 13 [] ch = "E" -> 14 [] ch = "F" -> 15
      [] OTHER -> 16

\* the four hexadecimal digits of a \u escape, from position i on
Hex4(text, i) ==
    IF \A k \in 0..3 : HexVal(At(text, i + k)) < 16
    THEN Some(4096 * HexVal(text[i]) + 256 * HexVal(text[i + 1])
                  + 16 * HexVal(text[i + 2]) + HexVal(text[i + 3]))
    ELSE None

\* the character of a code point
CodeChar(code) ==
    CASE code < 32  -> ControlChars[code + 1]
      [] code \in 32..126 -> Ascii[code - 31]
      [] code = 127 -> Delete
      [] OTHER      -> NonAscii

HighSurrogates == 55296..56319
LowSurrogates  == 56320..57343

\* the characters of a string literal from position i on, up to its closing
\* quote: the escapes are decoded, a control character that is not escaped is
\* refused, and so is a surrogate that is not one of a pair
RECURSIVE parse_string_from(_, _, _)
parse_string_from(text, i, acc) ==
    CASE At(text, i) = "eof" -> ParseError
      [] At(text, i) = Quote -> Parsed(acc, i + 1)
      [] At(text, i) = Backslash ->
            LET e == At(text, i + 1) IN
            CASE e \in {Quote, Backslash, "/"} ->
                    parse_string_from(text, i + 2, Append(acc, e))
              [] e = "b" -> parse_string_from(text, i + 2, Append(acc, Backspace))
              [] e = "f" -> parse_string_from(text, i + 2, Append(acc, FormFeed))
              [] e = "n" -> parse_string_from(text, i + 2, Append(acc, Newline))
              [] e = "r" -> parse_string_from(text, i + 2, Append(acc, Return))
              [] e = "t" -> parse_string_from(text, i + 2, Append(acc, Tab))
              [] e = "u" ->
                    LET h == Hex4(text, i + 2) IN
                    CASE ~h.some -> ParseError
                      [] h.some /\ h.v \in LowSurrogates -> ParseError
                      [] h.some /\ h.v \in HighSurrogates ->
                            LET l == Hex4(text, i + 8) IN
                            IF /\ At(text, i + 6) = Backslash
                               /\ At(text, i + 7) = "u"
                               /\ l.some
                               /\ l.v \in LowSurrogates
                            THEN parse_string_from(text, i + 12, Append(acc, NonAscii))
                            ELSE ParseError
                      [] OTHER -> parse_string_from(text, i + 6, Append(acc, CodeChar(h.v)))
              [] OTHER -> ParseError
      [] At(text, i) \in Range(ControlChars) -> ParseError
      [] OTHER -> parse_string_from(text, i + 1, Append(acc, text[i]))

Digits == {"0", "1", "2", "3", "4", "5", "6", "7", "8", "9"}

\* the position behind the digits that start at i
RECURSIVE digits_end(_, _)
digits_end(text, i) == IF At(text, i) \in Digits THEN digits_end(text, i + 1) ELSE i

\* the digits without the zeros they start with: the digits of a u64, none for 0
RECURSIVE strip_zeros(_)
strip_zeros(ds) == IF ds # <<>> /\ ds[1] = "0" THEN strip_zeros(Tail(ds)) ELSE ds

\* a >= b for two sequences of digits of the same length, from the i-th digit on
RECURSIVE digits_geq(_, _, _)
digits_geq(a, b, i) ==
    IF i > Len(a) THEN TRUE
    ELSE IF a[i] # b[i] THEN HexVal(a[i]) > HexVal(b[i])
    ELSE digits_geq(a, b, i + 1)

\* a >= b for the digits of two numbers
number_geq(a, b) ==
    \/ Len(a) > Len(b)
    \/ Len(a) = Len(b) /\ digits_geq(a, b, 1)

\* u64::max_value()
U64Max ==
    <<"1", "8", "4", "4", "6", "7", "4", "4", "0", "7", "3", "7", "0", "9", "5", "5",
      "1", "6", "1", "5">>

\* overflow!(significand * 10 + digit, u64::max_value())
overflow(significand, digit) ==
    LET next == strip_zeros(Append(significand, digit)) IN
    next # U64Max /\ number_geq(next, U64Max)

\* the digits from position i on are taken into the significand until the next
\* one would overflow it
RECURSIVE take_digits(_, _, _)
take_digits(text, i, significand) ==
    IF At(text, i) \in Digits /\ ~overflow(significand, At(text, i))
    THEN take_digits(text, i + 1, strip_zeros(Append(significand, At(text, i))))
    ELSE [significand |-> significand, next |-> i]

\* the least significand whose f64, multiplied by POW10[e], is infinite; below
\* 1e289 no u64 is
InfiniteFrom(e) ==
    CASE e = 289 -> <<"1", "7", "9", "7", "6", "9", "3", "1", "3", "4", "8", "6", "2", "3", "1", "5", "6", "2", "2", "5">>
      [] e = 290 -> <<"1", "7", "9", "7", "6", "9", "3", "1", "3", "4", "8", "6", "2", "3", "1", "5", "6", "4", "9">>
      [] e = 291 -> <<"1", "7", "9", "7", "6", "9", "3", "1", "3", "4", "8", "6", "2", "3", "1", "6", "0", "0">>
      [] e = 292 -> <<"1", "7", "9", "7", "6", "9", "3", "1", "3", "4", "8", "6", "2", "3", "1", "5", "8">>
      [] e = 293 -> <<"1", "7", "9", "7", "6", "9", "3", "1", "3", "4", "8", "6", "2", "3", "1", "6">>
      [] e = 294 -> <<"1", "7", "9", "7", "6", "9", "3", "1", "3", "4", "8", "6", "2", "3", "2">>
      [] e = 295 -> <<"1", "7", "9", "7", "6", "9", "3", "1", "3", "4", "8", "6", "2", "4">>
      [] e = 296 -> <<"1", "7", "9", "7", "6", "9", "3", "1", "3", "4", "8", "6", "3">>
      [] e = 297 -> <<"1", "7", "9", "7", "6", "9", "3", "1", "3", "4", "8", "7">>
      [] e = 298 -> <<"1", "7", "9", "7", "6", "9", "3", "1", "3", "4", "9">>
      [] e = 299 -> <<"1", "7", "9", "7", "6", "9", "3", "1", "3", "5">>
      [] e = 300 -> <<"1", "7", "9", "7", "6", "9", "3", "1", "4">>
      [] e = 301 -> <<"1", "7", "9", "7", "6", "9", "3", "2">>
      [] e = 302 -> <<"1", "7", "9", "7", "6", "9", "4">>
      [] e = 303 -> <<"1", "7", "9", "7", "7", "0">>
      [] e = 304 -> <<"1", "7", "9", "7", "7">>
      [] e = 305 -> <<"1", "7", "9", "8">>
      [] e = 306 -> <<"1", "8", "0">>
      [] e = 307 -> <<"1", "8">>
      [] e = 308 -> <<"2">>

\* f64_from_parts gives "number out of range": the significand is not 0 and the
\* exponent is beyond the table of powers, or the product is infinite
out_of_range(significand, exponent) ==
    /\ significand # <<>>
    /\ exponent >= 0
    /\ \/ exponent > 308
       \/ exponent >= 289 /\ number_geq(significand, InfiniteFrom(exponent))

\* the number ends at position i with this significand and this exponent
f64_from_parts(text, start, i, significand, exponent) ==
    IF out_of_range(significand, exponent) THEN ParseError
    ELSE Parsed(JNum(SubSeq(text, start, i - 1)), i)

\* the digits of the exponent from position i on, as an i32; overflow! stops at
\* the digit that does not fit, which is eaten
RECURSIVE exponent_digits(_, _, _)
exponent_digits(text, i, exp) ==
    IF At(text, i) \notin Digits THEN [exp |-> exp, next |-> i, overflow |-> FALSE]
    ELSE LET digit == HexVal(At(text, i)) IN
         IF exp >= 214748364 /\ (exp > 214748364 \/ digit > 7)
         THEN [exp |-> exp, next |-> i + 1, overflow |-> TRUE]
         ELSE exponent_digits(text, i + 1, exp * 10 + digit)

\* starting_exp.saturating_add(exp) and saturating_sub(exp), exp not negative
final_exp(starting_exp, exp, positive_exp) ==
    IF positive_exp
    THEN (IF starting_exp > 0 /\ exp > 2147483647 - starting_exp
          THEN 2147483647 ELSE starting_exp + exp)
    ELSE (IF starting_exp < 0 /\ exp > starting_exp + 2147483647
          THEN (0 - 2147483647) - 1 ELSE starting_exp - exp)

\* text[i] is e or E: a sign, at least one digit; an exponent that overflows the
\* i32 is an error when it is positive and the significand is not 0, and makes
\* the number 0 otherwise
parse_exponent(text, start, i, significand, starting_exp) ==
    LET positive_exp == At(text, i + 1) # "-"
        first        == IF At(text, i + 1) \in {"+", "-"} THEN i + 2 ELSE i + 1
    IN  IF At(text, first) \notin Digits THEN ParseError
        ELSE LET e == exponent_digits(text, first, 0) IN
             IF e.overflow
             THEN (IF significand # <<>> /\ positive_exp THEN ParseError
                   ELSE LET last == digits_end(text, e.next) IN
                        Parsed(JNum(SubSeq(text, start, last - 1)), last))
             ELSE f64_from_parts(text, start, e.next, significand,
                                 final_exp(starting_exp, e.exp, positive_exp))

\* text[i] is the point: the digits behind it go into the significand, each
\* taking one off the exponent, until one would overflow; the digits from there
\* on are ignored (parse_decimal_overflow)
parse_decimal(text, start, i, significand, exponent_before_decimal_point) ==
    LET r        == take_digits(text, i + 1, significand)
        last     == digits_end(text, r.next)
        exponent == exponent_before_decimal_point - (r.next - (i + 1))
    IN  IF last = i + 1 THEN ParseError
        ELSE IF At(text, last) \in {"e", "E"}
        THEN parse_exponent(text, start, last, r.significand, exponent)
        ELSE f64_from_parts(text, start, last, r.significand, exponent)

\* parse_integer behind the sign: 0 alone or digits that do not start with 0;
\* the digits that do not fit the u64 count into the exponent
\* (parse_long_integer); then the point, the exponent or the end of the number
parse_integer(text, start, i) ==
    IF At(text, i) \notin Digits \/ (At(text, i) = "0" /\ At(text, i + 1) \in Digits)
    THEN ParseError
    ELSE LET r        == take_digits(text, i, <<>>)
             last     == digits_end(text, r.next)
             exponent == last - r.next
         IN  CASE At(text, last) = "."        ->
                      parse_decimal(text, start, last, r.significand, exponent)
               [] At(text, last) \in {"e", "E"} ->
                      parse_exponent(text, start, last, r.significand, exponent)
               [] OTHER -> f64_from_parts(text, start, last, r.significand, exponent)

\* a number from position i on: an optional minus and parse_integer
parse_number(text, i) ==
    parse_integer(text, i, IF At(text, i) = "-" THEN i + 1 ELSE i)

\* a literal name from position i on
parse_literal(text, i, name, chars) ==
    IF i + Len(chars) - 1 <= Len(text) /\ SubSeq(text, i, i + Len(chars) - 1) = chars
    THEN Parsed(JLit(name), i + Len(chars))
    ELSE ParseError

\* remaining_depth of a new Deserializer: 127 nested arrays and objects parse,
\* 128 do not
RecursionLimit == 128

RECURSIVE parse_value(_, _, _)
RECURSIVE parse_items(_, _, _, _)
RECURSIVE parse_members(_, _, _, _)

\* depth is remaining_depth: an array or an object takes one off it and is an
\* error when none is left
parse_value(text, i0, depth) ==
    LET i == skip_ws(text, i0) IN
    CASE At(text, i) = Quote ->
            LET r == parse_string_from(text, i + 1, <<>>) IN
            IF r.ok THEN Parsed(JStr(r.v), r.next) ELSE ParseError
      [] At(text, i) = "[" ->
            IF depth - 1 = 0 THEN ParseError
            ELSE IF At(text, skip_ws(text, i + 1)) = "]"
            THEN Parsed(JArr(<<>>), skip_ws(text, i + 1) + 1)
            ELSE parse_items(text, i + 1, <<>>, depth - 1)
      [] At(text, i) = "{" ->
            IF depth - 1 = 0 THEN ParseError
            ELSE IF At(text, skip_ws(text, i + 1)) = "}"
            THEN Parsed(JObj(<<>>), skip_ws(text, i + 1) + 1)
            ELSE parse_members(text, i + 1, <<>>, depth - 1)
      [] At(text, i) = "t" -> parse_literal(text, i, "true", <<"t", "r", "u", "e">>)
      [] At(text, i) = "f" -> parse_literal(text, i, "false", <<"f", "a", "l", "s", "e">>)
      [] At(text, i) = "n" -> parse_literal(text, i, "null", <<"n", "u", "l", "l">>)
      [] At(text, i) \in Digits \cup {"-"} -> parse_number(text, i)
      [] OTHER -> ParseError

parse_items(text, i, acc, depth) ==
    LET r == parse_value(text, i, depth) IN
    IF ~r.ok THEN ParseError
    ELSE LET j == skip_ws(text, r.next) IN
         CASE At(text, j) = "," -> parse_items(text, j + 1, Append(acc, r.v), depth)
           [] At(text, j) = "]" -> Parsed(JArr(Append(acc, r.v)), j + 1)
           [] OTHER -> ParseError

parse_members(text, i0, acc, depth) ==
    LET i == skip_ws(text, i0) IN
    IF At(text, i) # Quote THEN ParseError
    ELSE LET key == parse_string_from(text, i + 1, <<>>) IN
         IF ~key.ok \/ At(text, skip_ws(text, key.next)) # ":" THEN ParseError
         ELSE LET r == parse_value(text, skip_ws(text, key.next) + 1, depth) IN
              IF ~r.ok THEN ParseError
              ELSE LET j == skip_ws(text, r.next)
                       m == Append(acc, [key |-> key.v, value |-> r.v])
                   IN  CASE At(text, j) = "," -> parse_members(text, j + 1, m, depth)
                         [] At(text, j) = "}" -> Parsed(JObj(m), j + 1)
                         [] OTHER -> ParseError

\* serde_json::from_str: one value, nested no deeper than the recursion limit
\* allows, and nothing but whitespace behind it
from_str(text) ==
    LET r == parse_value(text, 1, RecursionLimit) IN
    IF r.ok /\ skip_ws(text, r.next) = Len(text) + 1 THEN Ok(r.v) ELSE Err("serde_json::Error")

\* export_to_json: the catalog is serialized and written with fs::write, which
\* opens the file (truncating it) and then writes the text.  The open can be
\* refused, which leaves the file as it was; the write can fail after the open,
\* which leaves the file empty or with a first part of the text, of any length.
\* CutText(text) is a file that holds some proper non-empty prefix of text.
CutText(text) == [some |-> TRUE, cut_off |-> text]

write_file(file, text, outcome) ==
    CASE outcome = "written" -> Some(text)
      [] outcome = "refused" -> file
      [] outcome = "emptied" -> Some(<<>>)
      [] OTHER               -> CutText(text)

ExportToJson ==
    /\ phase = "idle"
    /\ \E outcome \in WriteOutcomes :
         /\ json_file' = write_file(json_file, to_string_pretty(videos), outcome)
         /\ export_ret' = IF outcome = "written" THEN "Ok" ELSE "Io"
    /\ videos0' = videos
    /\ UNCHANGED <<videos, admVars, phase, extractVars, stageVars, rename_log, settingsVars>>

(***************************************************************************)
(* The program: main adds the videos, extracts the frames, runs the stages *)
(* of the topology, renames and exports.                                   *)
(***************************************************************************)
\* the file lists main is run on: a path that is no file, a missing probe
\* binary, a probe that cannot be started, a probe whose output is not UTF-8, a
\* file with a duration and a date
MainInputs ==
    { Input(PathA, FALSE, ProbeNotFound),
      Input(PathA, TRUE, ProbeNotFound),
      Input(PathA, TRUE, ProbeSpawnError),
      InputNotUtf8,
      InputLong }

AddVideosOnce ==
    /\ adm.op = "none"
    /\ AddVideosOf(BatchesOf(MainInputs))

\* main goes on to the extraction unless add_videos panicked
ExtractAfterAdd ==
    /\ adm.op # "none"
    /\ adm.ret # Panic
    /\ ExtractOnce

\* main calls export_to_json once, last
ExportOnce ==
    /\ StagesDone
    /\ export_ret = "none"
    /\ ExportToJson

\* the export is checked on the catalogs the model stages are checked on
NextExport == NextStages \/ ExportOnce

SpecExport == InitStages /\ [][NextExport]_vars

Next ==
    \/ AddVideosOnce
    \/ ExtractAfterAdd
    \/ Worker
    \/ ExtractJoin
    \/ NextStages
    \/ RenameOnce
    \/ ExportOnce

Spec == Init /\ [][Next]_vars

(***************************************************************************)
(* The operations of Aspargus in any order: admissions, extract_frames as  *)
(* often as wanted and model stages, closed by rename_videos or by         *)
(* export_to_json, which leave the catalog as it is and are read by no     *)
(* other operation.                                                        *)
(***************************************************************************)
Open == rename_log = <<>> /\ export_ret = "none"

\* the admission of an admissible file
AdmitAny ==
    /\ Open
    /\ Len(videos) < MaxAnyVideos
    /\ AddVideoOf({InputLong})

ExtractAny ==
    /\ Open
    /\ ExtractStart

StageAny ==
    /\ Open
    /\ Len(stages_run) < MaxStageRuns
    /\ \E stage \in Stages : StageStart(stage)

RenameAny ==
    /\ Open
    /\ RenameVideos

ExportAny ==
    /\ Open
    /\ ExportToJson

NextAny ==
    \/ AdmitAny
    \/ ExtractAny
    \/ Worker
    \/ ExtractJoin
    \/ StageAny
    \/ StageVideo
    \/ StageReply
    \/ StageReturn
    \/ RenameAny
    \/ ExportAny

\* Aspargus::new() on the first run: load_settings makes the config folder and
\* the temp folder and writes the default settings; no file has been exported
InitAny ==
    /\ Constructed
    /\ Quiet
    /\ tempdir = {}
    /\ json_file = None
    /\ settings = SettingsDefault
    /\ settings_file = settings
    /\ set_call = NoSetCall
    /\ clients = new_clients(settings)

SpecAny == InitAny /\ [][NextAny]_vars

\* C20: skip is monotonic: no step of any operation takes a video out of the
\* catalog, moves it, or sets its skip back to false once it is true.
C20_SkipMonotonic ==
    [][/\ Len(videos') >= Len(videos)
       /\ \A i \in 1..Len(videos) :
             /\ videos'[i].path = videos[i].path
             /\ videos[i].skip => videos'[i].skip]_vars

\* a skipped video went through a second extract_frames whose decoder ran, and a
\* model stage has passed it: it still has skip = true
C20_Witness ==
    /\ phase \in Stages
    /\ cursor > Len(videos)
    /\ \E i \in 1..Len(videos) :
          /\ videos[i].skip
          /\ wout[i].kind = "Ran"
          /\ videos[i].thumbnails # <<>>

(***************************************************************************)
(* Claims on the program.                                                  *)
(***************************************************************************)
keys_of(obj) == [k \in 1..Len(obj.a) |-> obj.a[k].key]

\* the Resume a reader of the exported file gets from the members of an object
decoded_resume(obj) ==
    [title       |-> obj.a[1].value.s,
     description |-> obj.a[2].value.s,
     keywords    |-> [k \in 1..Len(obj.a[3].value.a) |-> obj.a[3].value.a[k].s]]

\* C15: when export_to_json has returned Ok, the exported file parses as a JSON
\* array with one object per video of the catalog, in catalog order, whose members
\* are path and resume (title, description, keywords) and nothing else; the path
\* is the video's, the resume of a non-skipped video is the one it has in memory,
\* and the resume of a skipped video has empty fields.
C15_ExportRoundTrip ==
    (export_ret = "Ok" /\ json_file.some) =>
        LET doc == from_str(json_file.v) IN
        /\ doc.ok
        /\ doc.v.t = "arr"
        /\ Len(doc.v.a) = Len(videos)
        /\ \A i \in 1..Len(videos) :
              LET entry == doc.v.a[i] IN
              /\ entry.t = "obj"
              /\ keys_of(entry) = <<Chars("path"), Chars("resume")>>
              /\ entry.a[1].value = JStr(videos[i].path)
              /\ entry.a[2].value.t = "obj"
              /\ keys_of(entry.a[2].value)
                     = <<Chars("title"), Chars("description"), Chars("keywords")>>
              /\ ~videos[i].skip => decoded_resume(entry.a[2].value) = videos[i].resume
              /\ videos[i].skip => decoded_resume(entry.a[2].value) = ResumeDefault

\* a skipped video and one with the resume of a model, whose description holds a
\* quote and a line feed, were exported
C15_Witness ==
    /\ json_file.some
    /\ export_ret = "Ok"
    /\ \E i, j \in 1..Len(videos) :
          /\ videos[i].skip
          /\ ~videos[j].skip
          /\ videos[j].resume = Resume1
          /\ {Quote, Newline} \subseteq Range(videos[j].resume.description)

(***************************************************************************)
(* The settings mutators.  Each stores the value and saves the settings    *)
(* when the value differs from the current one; save_settings writes the   *)
(* file with fs::write, which opens the file (truncating it) and then      *)
(* writes the text: the open can be refused, and the write can fail after  *)
(* the open, with nothing or a part of the text written.                   *)
(***************************************************************************)
set_computer_vision_model(st, model)      == [st EXCEPT !.computer_vision_model = model]
set_text_model(st, model)                 == [st EXCEPT !.text_model = model]
set_computer_vision_server(st, server)    == [st EXCEPT !.computer_vision_server = server]
set_computer_vision_server_port(st, port) == [st EXCEPT !.computer_vision_server_port = port]
set_text_server(st, server)               == [st EXCEPT !.text_server = server]

\* mutant: the port of the other server is assigned
set_text_server_port_other_field(st, port) == [st EXCEPT !.computer_vision_server_port = port]

set_text_server_port(st, port)            == [st EXCEPT !.text_server_port = port]
set_two_steps(st, two_steps)              == [st EXCEPT !.two_steps = two_steps]

Mutators ==
    {"computer_vision_model", "text_model", "computer_vision_server",
     "computer_vision_server_port", "text_server", "text_server_port", "two_steps"}

\* the values a mutator is called with: the default and another one
SetValues(field) ==
    CASE field \in {"computer_vision_server_port", "text_server_port"}
             -> {DefaultPort, DefaultPort + 1}
      [] field = "two_steps" -> BOOLEAN
      [] OTHER -> {SettingsDefault[field], "other"}

assigned(st, field, value) ==
    CASE field = "computer_vision_model"       -> set_computer_vision_model(st, value)
      [] field = "text_model"                  -> set_text_model(st, value)
      [] field = "computer_vision_server"      -> set_computer_vision_server(st, value)
      [] field = "computer_vision_server_port" -> set_computer_vision_server_port(st, value)
      [] field = "text_server"                 -> set_text_server(st, value)
      [] field = "text_server_port"            -> set_text_server_port(st, value)
      [] OTHER                                 -> set_two_steps(st, value)


\* a settings file with no content, and one that holds a proper non-empty prefix
\* of the text of the settings st
EmptyFile   == [empty |-> TRUE]
CutFile(st) == [cut_off |-> st]

\* save_settings(&self.settings): the content of the file after fs::write
save_settings(st, file, outcome) ==
    CASE outcome = "written" -> st
      [] outcome = "refused" -> file
      [] outcome = "emptied" -> EmptyFile
      [] OTHER               -> CutFile(st)

\* the place of a mutator among the calls of main (0: none called yet)
call_order(field) ==
    CASE field = "none"                        -> 0
      [] field = "computer_vision_server"      -> 1
      [] field = "computer_vision_server_port" -> 2
      [] field = "computer_vision_model"       -> 3
      [] field = "text_server"                 -> 4
      [] field = "text_server_port"            -> 5
      [] field = "text_model"                  -> 6
      [] OTHER                                 -> 7

\* mutant: the mutator builds the two clients again from the settings it leaves
clients_after_set_rebuilt(cl, st) == new_clients(st)

\* the mutators assign self.settings only: cv_ollama and text_ollama are the ones
\* of Aspargus::new
clients_after_set(cl, st) == cl

\* one call of a mutator, in the order main calls them: each is called when its
\* argument was given
SetSetting ==
    /\ phase = "idle"
    /\ \E field \in Mutators : \E value \in SetValues(field) :
         /\ call_order(field) > call_order(set_call.field)
         /\ IF settings[field] # value
            THEN \E outcome \in WriteOutcomes :
                   /\ settings' = assigned(settings, field, value)
                   /\ settings_file' = save_settings(assigned(settings, field, value),
                                                     settings_file, outcome)
                   /\ set_call' = [field |-> field, value |-> value, changed |-> TRUE,
                                   called |-> TRUE, saved |-> (outcome = "written")]
            ELSE /\ UNCHANGED <<settings, settings_file>>
                 /\ set_call' = [field |-> field, value |-> value, changed |-> FALSE,
                                 called |-> FALSE, saved |-> FALSE]
    /\ clients' = clients_after_set(clients, settings')
    /\ UNCHANGED <<videos, admVars, phase, videos0, extractVars, stageVars, rename_log,
                   exportVars>>

NextSettings == SetSetting

SpecSettings == Init /\ [][NextSettings]_vars

\* C16 as stated: every invocation of a settings mutator calls save_settings
\* before it returns, and the file holds the settings in memory when the write
\* succeeded.
C16_EveryCallPersists ==
    set_call.field # "none" =>
        /\ set_call.called
        /\ set_call.saved => settings_file = settings

\* C16 as amended: a mutator called with a value that differs from the current
\* one stores it and calls save_settings before it returns; called with the
\* current value it writes nothing; whenever the write succeeded the file holds
\* the settings in memory.
C16_ChangingCallPersists ==
    set_call.field # "none" =>
        /\ settings[set_call.field] = set_call.value
        /\ set_call.called <=> set_call.changed
        /\ set_call.saved => (set_call.called /\ settings_file = settings)

\* a changing call of set_text_server_port whose write succeeded, behind a
\* changing call of set_computer_vision_model
C16_Witness ==
    /\ set_call.field = "text_server_port"
    /\ set_call.changed
    /\ set_call.saved
    /\ settings_file = settings
    /\ settings.text_server_port # DefaultPort
    /\ settings.computer_vision_model # SettingsDefault.computer_vision_model

ServerFields == {"computer_vision_server", "computer_vision_server_port",
                 "text_server", "text_server_port"}

\* C28: the endpoints of the vision and text clients are fixed when the instance
\* is constructed: no settings mutator changes cv_ollama or text_ollama, while a
\* changing call of set_computer_vision_server, set_computer_vision_server_port,
\* set_text_server or set_text_server_port stores the value in the settings (and
\* in the file when the write succeeds).
C28_ClientsFixed ==
    [][ /\ clients' = clients
        /\ (set_call' # set_call /\ set_call'.field \in ServerFields /\ set_call'.changed) =>
              /\ settings'[set_call'.field] = set_call'.value
              /\ settings[set_call'.field] # set_call'.value
              /\ set_call'.saved => settings_file'[set_call'.field] = set_call'.value ]_vars

\* the four endpoint settings were changed and saved, and both clients still
\* have the server and the port loaded at construction
C28_Witness ==
    /\ set_call.field = "text_server_port"
    /\ set_call.changed /\ set_call.saved
    /\ settings_file = settings
    /\ clients.cv_ollama.host # settings.computer_vision_server
    /\ clients.cv_ollama.port # settings.computer_vision_server_port
    /\ clients.text_ollama.host # settings.text_server
    /\ clients.text_ollama.port # settings.text_server_port
    /\ clients = new_clients(SettingsDefault)

\* C12: in a run of the program, once add_videos has returned the fatal error
\* (probe binary absent) no later phase is started (no extraction, no model
\* stage, no rename), and once extract_frames has returned the fatal error
\* (decoder binary absent) no model stage and no rename is started.
C12_FatalGatesNextPhase ==
    /\ (adm.op = "add_videos" /\ adm.ret = "GenericError") =>
          /\ phase = "idle"
          /\ extract_ret = "none"
          /\ stages_run = <<>>
          /\ rename_log = <<>>
    /\ extract_ret = "ProcessingError" =>
          /\ stages_run = <<>>
          /\ rename_log = <<>>

(***************************************************************************)
(* Claims on the progress counter videos_number.                           *)
(***************************************************************************)
\* C21: videos_number counts admission attempts, not successes: after add_videos
\* has submitted k paths for admission, videos_number has grown by exactly k,
\* whether each admission succeeded, failed because the path is not a file, or
\* failed on the probe.
C21_CountsAttempts ==
    adm.op = "add_videos" => videos_number = adm.vn0 + adm.submitted

(***************************************************************************)
(* The gap is checked on catalogs built by add_video from files whose      *)
(* probe gives a duration alone, a duration and a date, a date alone, and  *)
(* a duration below zero ("-5.0" parses as an f32 like any other number).  *)
(***************************************************************************)
InputNeg      == Input(PathA, TRUE, ProbeOutput(<<LineNeg>>))
InputDateOnly == Input(PathB, TRUE, ProbeOutput(<<LineDate>>))

GapInputs == {InputShort, InputLong, InputNeg, InputDateOnly}

NextGap == AddVideoOf(GapInputs)

SpecGap == Init /\ [][NextGap]_vars

\* C22: every video in the catalog has gap >= 0 (gap = floor(duration / 3) for the
\* probed duration, 0 when the duration is unknown), for every value the probe
\* output can parse to as a duration.
C22_GapNotNegative ==
    \A i \in 1..Len(videos) : videos[i].gap >= 0

(***************************************************************************)
(* get_video_metadata as a function of what the probe printed: every       *)
(* sequence of up to MaxProbeLines lines, among two durations, a negative  *)
(* number, two timestamps and a line that is neither.                      *)
(***************************************************************************)
MaxProbeLines == 3   \* most lines of one probe output

ProbeLineSet == {LineShort, LineLong, LineNeg, LineDate, LineDate2, LineJunk}

ProbeOutputs ==
    {ProbeOutput(ls) : ls \in UNION { [1..n -> ProbeLineSet] : n \in 0..MaxProbeLines }}

\* one call of get_video_metadata on a new instance
GetVideoMetadata ==
    /\ phase = "idle"
    /\ adm = AdmNone
    /\ \E probe \in {ProbeNotFound, ProbeSpawnError} \cup ProbeOutputs :
         LET r == get_video_metadata(probe) IN
         adm' = [op |-> "get_video_metadata", kinds |-> <<>>, submitted |-> 0,
                 ret |-> IF r.ok THEN "Ok" ELSE r.err, logged |-> FALSE,
                 len0 |-> Len(videos), vn0 |-> videos_number,
                 probe |-> probe, meta |-> r.v]
    /\ UNCHANGED <<videos, videos_number, phase, videos0, extractVars, stageVars,
                   rename_log, exportVars, settingsVars>>

NextProbe == GetVideoMetadata

SpecProbe == Init /\ [][NextProbe]_vars

\* the kind a line parses as: a timestamp first, otherwise a duration
line_kind(line) ==
    IF parse_from_rfc3339(line).some THEN "date"
    ELSE IF parse_f32(line).some THEN "duration"
    ELSE "none"

\* the positions of the lines that are the first occurrence of their text
FirstOccurrences(ls) == {i \in 1..Len(ls) : \A k \in 1..(i - 1) : ls[k] # ls[i]}

\* the last line of a kind among the first occurrences, if any
LastOfKind(ls, kind) ==
    LET idx == {i \in FirstOccurrences(ls) : line_kind(ls[i]) = kind} IN
    IF idx = {} THEN None
    ELSE Some(ls[CHOOSE i \in idx : \A k \in idx : k <= i])

\* C25: metadata parsing: duplicate probe lines are removed keeping the first
\* occurrence in original order; each remaining line is tried first as an RFC3339
\* timestamp, otherwise as a floating-point duration; scanning in order, the last
\* successfully parsed value of each kind is the result, a kind with no parseable
\* line is absent, and unparseable lines are ignored.
C25_MetadataParsing ==
    (adm.op = "get_video_metadata" /\ adm.probe.kind = "Output") =>
        LET ls   == adm.probe.lines
            date == LastOfKind(ls, "date")
            dur  == LastOfKind(ls, "duration")
        IN  /\ adm.ret = "Ok"
            /\ adm.meta.date = IF date.some THEN parse_from_rfc3339(date.v) ELSE None
            /\ adm.meta.duration = IF dur.some THEN parse_f32(dur.v) ELSE None

\* the lines 120.5, 2023-05-01T10:00:00Z, 120.5 give that duration and that date
C25_Witness ==
    /\ adm.op = "get_video_metadata"
    /\ adm.probe = ProbeOutput(<<LineLong, LineDate, LineLong>>)
    /\ adm.meta = [duration |-> Some(1205), date |-> Some(Date(2023, 5, 1))]

(***************************************************************************)
(* extract_json as a function of the response text: every text of up to    *)
(* MaxResponseLen characters among the two braces and one other character. *)
(***************************************************************************)
MaxResponseLen == 5   \* longest response text given to extract_json

ResponseChars == {"{", "}", "r"}

ResponseTexts == UNION { [1..n -> ResponseChars] : n \in 0..MaxResponseLen }

\* one call of extract_json
ExtractJson ==
    /\ phase = "idle"
    /\ adm = AdmNone
    /\ \E input \in ResponseTexts :
         adm' = [op |-> "extract_json", kinds |-> <<>>, submitted |-> 0,
                 ret |-> "Ok", logged |-> FALSE,
                 len0 |-> Len(videos), vn0 |-> videos_number,
                 input |-> input, json |-> extract_json(input)]
    /\ UNCHANGED <<videos, videos_number, phase, videos0, extractVars, stageVars,
                   rename_log, exportVars, settingsVars>>

NextJson == ExtractJson

SpecJson == Init /\ [][NextJson]_vars

\* opening braces minus closing braces in text[i..j]
BraceDepth(text, i, j) ==
    Cardinality({k \in i..j : text[k] = "{"}) - Cardinality({k \in i..j : text[k] = "}"})

\* text[i..j] is a balanced-brace substring that is closed at j and not before
BalancedAt(text, i, j) ==
    /\ text[i] = "{"
    /\ BraceDepth(text, i, j) = 0
    /\ \A k \in i..(j - 1) : BraceDepth(text, i, k) > 0

\* the first outermost balanced-brace substring of the text, if any
FirstBalanced(text) ==
    LET starts == {i \in 1..Len(text) : \E j \in i..Len(text) : BalancedAt(text, i, j)} IN
    IF starts = {} THEN None
    ELSE LET i == CHOOSE x \in starts : \A y \in starts : x <= y
             j == CHOOSE x \in i..Len(text) : BalancedAt(text, i, x)
         IN  Some(SubSeq(text, i, j))

\* C26: extract_json returns the first outermost balanced-brace substring of the
\* model response (exactly the JSON object when it is surrounded by leading and
\* trailing noise), and nothing when the response has no such substring.
C26_FirstBalanced ==
    adm.op = "extract_json" => adm.json = FirstBalanced(adm.input)

(***************************************************************************)
(* Any sequence of add_videos calls on a new instance.                     *)
(***************************************************************************)
NextBatches == AddVideos

SpecBatches == Init /\ [][NextBatches]_vars

\* C30: after any sequence of add_videos calls, the number of videos in the
\* catalog is at most videos_number and every video's numeric_id is at most
\* videos_number, so a progress line "i/N" never shows i greater than N.
C30_ProgressWithinTotal ==
    /\ Len(videos) <= videos_number
    /\ \A i \in 1..Len(videos) : videos[i].numeric_id <= videos_number

\* a second add_videos call has admitted a video behind a probe failure that was
\* counted, on a catalog that held one already
C30_Witness ==
    /\ adm.op = "add_videos"
    /\ adm.len0 >= 1
    /\ adm.kinds = <<"spawnerr", "ok">>
    /\ adm.submitted = 2
    /\ Len(videos) = adm.len0 + 1
    /\ videos[Len(videos)].numeric_id < videos_number

====
